---- MODULE Spec2Model ----
(***************************************************************************)
(* A model of the UI-state synchronisation layer: the UIManager reducer    *)
(* (services/UIManager) and the stream demultiplexer of the hook           *)
(* useAgUIClientWithUIManager.                                             *)
(*                                                                         *)
(* JSON values are modelled as trees: a function from paths (sequences of  *)
(* property names) to strings.  The value at the empty path is the value   *)
(* itself: the marker "#obj" or "#arr" for a container, or an atom.  Atoms *)
(* that are not strings carry a "#": "#t", "#f", "#null", "#0".  A path    *)
(* outside the domain reads as undefined ("#undef"); a property holding    *)
(* undefined is modelled as an absent property (what JSON.stringify and a  *)
(* structural comparison see).                                             *)
(***************************************************************************)
EXTENDS Integers, Sequences, FiniteSets, TLC

VARIABLES
  mgr,    \* the UIManager instance: its state, pending timers, last call
  obs,    \* a state value an external reader obtained earlier and kept
  hist,   \* history of the run (which operation ran last, ...)
  hook,   \* the hook: loading flag, abort handle, the turn in progress
  net,    \* the server's response for the turn, as the transport delivers it
  twin    \* a second, independent client fed the same input

vars == <<mgr, obs, hist, hook, net, twin>>

-----------------------------------------------------------------------------
(* JSON trees *)

Undef  == "#undef"
JTrue  == "#t"
JFalse == "#f"
JNull  == "#null"
JZero  == "#0"
ObjTag == "#obj"
ArrTag == "#arr"

Bool(b) == IF b THEN JTrue ELSE JFalse

\* JavaScript truthiness of the value at the root of a tree / of an atom
Truthy(v)  == v \notin {Undef, JFalse, "", JNull, JZero}
Nullish(v) == v \in {Undef, JNull}
IsContainer(v) == v \in {ObjTag, ArrTag}

\* F(x).  An operator's argument is an expression, evaluated wherever the
\* operator's body uses it; Once evaluates x one time and hands F the value.
Once(F(_), x) == CHOOSE r \in {F(v) : v \in {x}} : TRUE

NoTree == [p \in {} |-> Undef]                    \* undefined
Leaf(v) == IF v = Undef THEN NoTree ELSE [p \in {<< >>} |-> v]
EmptyObj == [p \in {<< >>} |-> ObjTag]

Get(t, p) == IF p \in DOMAIN t THEN t[p] ELSE Undef
Val(t) == Get(t, << >>)

IsPrefix(p, q) == Len(p) <= Len(q) /\ SubSeq(q, 1, Len(p)) = p
Rest(p, q) == SubSeq(q, Len(p) + 1, Len(q))

\* the value found at path p of t (undefined when there is none)
Sub(t, p) ==
  [q \in {Rest(p, r) : r \in {r \in DOMAIN t : IsPrefix(p, r)}} |-> t[p \o q]]

\* t with the property at path p deleted
Without(t, p) == [q \in {r \in DOMAIN t : ~IsPrefix(p, r)} |-> t[q]]

\* t with the property at path p set to the value s
Put(t, p, s) ==
  [q \in {r \in DOMAIN t : ~IsPrefix(p, r)} \cup {p \o r : r \in DOMAIN s} |->
     IF IsPrefix(p, q) THEN s[Rest(p, q)] ELSE t[q]]

\* the object literal { k: f[k], ... }
MkObj(f) ==
  [q \in {<< >>} \cup UNION {{<<k>> \o r : r \in DOMAIN f[k]} : k \in DOMAIN f} |->
     IF q = << >> THEN ObjTag ELSE f[q[1]][Tail(q)]]

\* the array literal [ x ]
Arr1(x) == [q \in {<< >>} \cup {<<"0">> \o r : r \in DOMAIN x} |->
              IF q = << >> THEN ArrTag ELSE x[Tail(q)]]

\* the object spread { ...t }: the own properties of a container, nothing
\* for undefined, null, a boolean or a number.  (A non-empty string would
\* spread into its characters; the inputs never put one where an object is
\* spread.)
SpreadObj(t) ==
  IF IsContainer(Val(t))
  THEN [q \in DOMAIN t |-> IF q = << >> THEN ObjTag ELSE t[q]]
  ELSE EmptyObj

-----------------------------------------------------------------------------
(* UIManager: the state model *)

\* private getInitialState()
GetInitialState ==
  MkObj([content |-> MkObj([visible |-> Leaf(JFalse), text |-> Leaf("")]),
         mediaUpload |-> MkObj([visible |-> Leaf(JFalse),
                                status |-> Leaf("idle"),
                                acceptedTypes |-> Arr1(Leaf("image/*")),
                                multiple |-> Leaf(JFalse)]),
         buttons |-> EmptyObj])

\* the props bag of a directive: every recognised field, undefined if absent
NoProps ==
  [text |-> Undef, visible |-> Undef, accept |-> Undef, multiple |-> Undef,
   uploadLabel |-> Undef, buttonId |-> Undef, buttonLabel |-> Undef,
   enabled |-> Undef, action |-> Undef, style |-> Undef]

Directive(action, props) ==
  [type |-> "ui-directive", action |-> action, props |-> props]
Snapshot(state) == [type |-> "state-snapshot", state |-> state]
Delta(patch) == [type |-> "state-delta", patch |-> patch]
\* a patch operation; path is the result of path.split('/')
Patch(op, path, value) == [op |-> op, path |-> path, value |-> value]

\* what a helper returns: the new state value, or a thrown TypeError
Ok(s)     == [state |-> s, raised |-> FALSE]
Throws(s) == [state |-> s, raised |-> TRUE]

-----------------------------------------------------------------------------
(* UIManager.applyUIDirective *)

ButtonFromProps(props) ==
  MkObj([visible |-> Leaf(JTrue),
         enabled |-> Leaf(IF Nullish(props.enabled) THEN JTrue ELSE props.enabled),
         label |-> Leaf(props.buttonLabel),
         action |-> Leaf(props.action),
         style |-> Leaf(IF Nullish(props.style) THEN "primary" ELSE props.style)])

\* an update that builds the button from the props alone
MergeButton_FromProps(button, props) == ButtonFromProps(props)

\* { ...button, ...(cond && {field: value}), ... } of update-button
MergeButton(button, props) ==
  LET b0 == SpreadObj(button)
      b1 == IF props.enabled # Undef
            THEN Put(b0, <<"enabled">>, Leaf(props.enabled)) ELSE b0
      b2 == IF Truthy(props.buttonLabel)
            THEN Put(b1, <<"label">>, Leaf(props.buttonLabel)) ELSE b1
      b3 == IF Truthy(props.action)
            THEN Put(b2, <<"action">>, Leaf(props.action)) ELSE b2
  IN IF Truthy(props.style) THEN Put(b3, <<"style">>, Leaf(props.style)) ELSE b3

ApplyUIDirective(state, directive) ==
  LET newState == SpreadObj(state)
      props == directive.props
      content == Sub(newState, <<"content">>)
      mediaUpload == Sub(newState, <<"mediaUpload">>)
      buttons == Sub(newState, <<"buttons">>)
      id == props.buttonId
      button == Sub(buttons, <<id>>)
  IN CASE directive.action = "show-content" ->
            Ok(Put(newState, <<"content">>,
                   MkObj([visible |-> Leaf(JTrue),
                          text |-> Leaf(IF Truthy(props.text) THEN props.text ELSE "")])))
       [] directive.action = "update-content" ->
            \* props.text ?? newState.content.text reads a property of
            \* newState.content: a TypeError when that is undefined or null
            IF Nullish(Val(content)) /\ (Nullish(props.text) \/ Nullish(props.visible))
            THEN Throws(state)
            ELSE Ok(Put(newState, <<"content">>,
                        Put(Put(SpreadObj(content), <<"text">>,
                                IF Nullish(props.text) THEN Sub(content, <<"text">>)
                                ELSE Leaf(props.text)),
                            <<"visible">>,
                            IF Nullish(props.visible) THEN Sub(content, <<"visible">>)
                            ELSE Leaf(props.visible))))
       [] directive.action = "hide-content" ->
            Ok(Put(newState, <<"content">>,
                   Put(SpreadObj(content), <<"visible">>, Leaf(JFalse))))
       [] directive.action = "show-upload" ->
            Ok(Put(newState, <<"mediaUpload">>,
                   MkObj([visible |-> Leaf(JTrue),
                          status |-> Leaf("idle"),
                          acceptedTypes |-> Arr1(Leaf(IF Truthy(props.accept)
                                                      THEN props.accept ELSE "image/*")),
                          multiple |-> Leaf(IF Nullish(props.multiple)
                                            THEN JFalse ELSE props.multiple),
                          label |-> Leaf(props.uploadLabel)])))
       [] directive.action \in {"hide-upload", "cancel-upload"} ->
            Ok(Put(newState, <<"mediaUpload">>,
                   Put(Put(SpreadObj(mediaUpload), <<"visible">>, Leaf(JFalse)),
                       <<"status">>, Leaf("idle"))))
       [] directive.action = "show-button" ->
            IF ~Truthy(id) THEN Ok(newState)
            \* newState.buttons[id] = ... on something that is no object
            ELSE IF ~IsContainer(Val(buttons)) THEN Throws(state)
            ELSE Ok(Put(newState, <<"buttons", id>>, ButtonFromProps(props)))
       [] directive.action = "hide-button" ->
            IF ~Truthy(id) THEN Ok(newState)
            \* newState.buttons[id] read from undefined or null
            ELSE IF Nullish(Val(buttons)) THEN Throws(state)
            ELSE IF ~IsContainer(Val(buttons)) \/ ~Truthy(Val(button)) THEN Ok(newState)
            ELSE Ok(Put(newState, <<"buttons", id>>,
                        Put(SpreadObj(button), <<"visible">>, Leaf(JFalse))))
       [] directive.action = "update-button" ->
            IF ~Truthy(id) THEN Ok(newState)
            ELSE IF Nullish(Val(buttons)) THEN Throws(state)
            ELSE IF ~IsContainer(Val(buttons)) \/ ~Truthy(Val(button)) THEN Ok(newState)
            ELSE Ok(Put(newState, <<"buttons", id>>, MergeButton(button, props)))
       [] OTHER -> Ok(newState)

-----------------------------------------------------------------------------
(* UIManager.applyStateDelta *)

\* a normalization that keeps the 'ui' segment
PathParts_Unstripped(path) == SelectSeq(path, LAMBDA p : p # "")

\* patch.path.split('/').filter(p => p), then the leading 'ui' stripped
PathParts(path) ==
  LET parts == SelectSeq(path, LAMBDA p : p # "")
  IN IF Len(parts) > 0 /\ parts[1] = "ui" THEN Tail(parts) ELSE parts

\* The navigation loop: descends from `at` through all segments of `parts`
\* but the last, creating {} where the segment holds a falsy value.  The
\* module is strict-mode code: assigning a property of a primitive throws.
RECURSIVE Navigate(_, _, _)
Navigate(tree, at, parts) ==
  IF Len(parts) <= 1 THEN [tree |-> tree, at |-> at, raised |-> FALSE]
  ELSE LET child == at \o <<Head(parts)>>
       IN IF ~IsContainer(Get(tree, at))
          THEN [tree |-> tree, at |-> at, raised |-> TRUE]
          ELSE IF ~Truthy(Get(tree, child))
          THEN Navigate(Put(tree, child, EmptyObj), child, Tail(parts))
          ELSE Navigate(tree, child, Tail(parts))

\* one patch operation applied to the working copy
ApplyPatch(newState, patch) ==
  LET pathParts == PathParts(patch.path)
      nav == Navigate(newState, << >>, pathParts)
      key == IF Len(pathParts) = 0 THEN "undefined" ELSE pathParts[Len(pathParts)]
      target == nav.at \o <<key>>
      assign == IF IsContainer(Get(nav.tree, nav.at))
                THEN Ok(Put(nav.tree, target, patch.value))
                ELSE Throws(newState)
  IN IF nav.raised THEN Throws(newState)
     ELSE CASE patch.op \in {"add", "replace"} -> assign
            [] patch.op = "remove" ->
                 IF IsContainer(Get(nav.tree, nav.at))
                 THEN Ok(Without(nav.tree, target)) ELSE Ok(nav.tree)
            [] patch.op \in {"move", "copy"} ->
                 IF Val(patch.value) # Undef THEN assign ELSE Ok(nav.tree)
            [] OTHER -> Ok(nav.tree)      \* 'test' only warns

RECURSIVE ApplyPatches(_, _)
ApplyPatches(newState, patches) ==
  IF patches = << >> THEN Ok(newState)
  ELSE LET r == ApplyPatch(newState, Head(patches))
       IN IF r.raised THEN r ELSE ApplyPatches(r.state, Tail(patches))

ApplyStateDelta(state, delta) ==
  \* JSON.parse(JSON.stringify(undefined)) throws a SyntaxError
  IF Val(state) = Undef THEN Throws(state)
  ELSE LET r == ApplyPatches(state, delta.patch)
       IN IF r.raised THEN Throws(state) ELSE r

-----------------------------------------------------------------------------
(* UIManager: the public methods.  A manager value m holds the state, the  *)
(* number of pending auto-hide timeouts, and a log of the current call:    *)
(* how often notifyListeners ran and whether an exception escaped.         *)

NewManager(initialState) ==
  [state |-> initialState, timers |-> 0, notified |-> 0, raised |-> FALSE]

\* the log is per call
Call(m) == [m EXCEPT !.notified = 0, !.raised = FALSE]

NotifyListeners(m) == [m EXCEPT !.notified = @ + 1]

Raise(m) == [m EXCEPT !.raised = TRUE]

\* this.state = newState; this.notifyListeners()  (skipped when the helper threw)
Commit(m, r) ==
  Once(LAMBDA res : IF res.raised THEN Raise(m)
                    ELSE NotifyListeners([m EXCEPT !.state = res.state]),
       r)

\* a reducer that shows one widget at a time: show-content hides the upload
ApplyDirective_OneWidget(m, directive) ==
  LET r == ApplyUIDirective(m.state, directive)
  IN IF directive.action = "show-content" /\ ~r.raised
     THEN Commit(m, ApplyUIDirective(r.state, Directive("hide-upload", NoProps)))
     ELSE Commit(m, r)

\* a hide-button that does not look whether the button exists
ApplyDirective_HideUnchecked(m, directive) ==
  IF directive.action = "hide-button" /\ Truthy(directive.props.buttonId)
     /\ IsContainer(Get(m.state, <<"buttons">>))
  THEN Commit(m, Ok(Put(m.state, <<"buttons", directive.props.buttonId>>,
                        Put(SpreadObj(Sub(m.state, <<"buttons", directive.props.buttonId>>)),
                            <<"visible">>, Leaf(JFalse)))))
  ELSE Commit(m, ApplyUIDirective(m.state, directive))

\* a show-upload that merges into the widget it finds
ApplyDirective_UploadMerged(m, directive) ==
  LET r == ApplyUIDirective(m.state, directive)
      before == SpreadObj(Sub(m.state, <<"mediaUpload">>))
  IN IF directive.action = "show-upload" /\ directive.props.uploadLabel = Undef
     THEN Commit(m, Ok(Put(r.state, <<"mediaUpload", "label">>,
                           Sub(before, <<"label">>))))
     ELSE Commit(m, r)

ApplyDirective(m, directive) == Commit(m, ApplyUIDirective(m.state, directive))

\* a snapshot handler that does not look for the ui wrapper
ApplySnapshot_Flat(m, snapshot) ==
  NotifyListeners([m EXCEPT !.state = snapshot.state])

ApplySnapshot(m, snapshot) ==
  LET s == snapshot.state
  IN IF Truthy(Val(s)) /\ IsContainer(Val(s)) /\ <<"ui">> \in DOMAIN s
     THEN NotifyListeners([m EXCEPT !.state = Sub(s, <<"ui">>)])
     ELSE NotifyListeners([m EXCEPT !.state = s])

ApplyDelta(m, delta) == Commit(m, ApplyStateDelta(m.state, delta))

\* a dispatcher that applies a directive without notifying the listeners
ProcessMessage_Silent(m, message) ==
  IF message.type = "ui-directive"
  THEN LET r == ApplyUIDirective(m.state, message)
       IN IF r.raised THEN Raise(m) ELSE [m EXCEPT !.state = r.state]
  ELSE IF message.type = "state-snapshot" THEN ApplySnapshot(m, message)
  ELSE IF message.type = "state-delta" THEN ApplyDelta(m, message)
  ELSE m

\* a dispatcher that notifies the listeners for a message of any type
ProcessMessage_NotifyAlways(m, message) ==
  IF message.type = "ui-directive" THEN ApplyDirective(m, message)
  ELSE IF message.type = "state-snapshot" THEN ApplySnapshot(m, message)
  ELSE IF message.type = "state-delta" THEN ApplyDelta(m, message)
  ELSE NotifyListeners(m)

ProcessMessage(m, message) ==
  IF message.type = "ui-directive" THEN ApplyDirective(m, message)
  ELSE IF message.type = "state-snapshot" THEN ApplySnapshot(m, message)
  ELSE IF message.type = "state-delta" THEN ApplyDelta(m, message)
  ELSE m

\* a reset that is a partial clear: the buttons survive
Reset_PartialClear(m) ==
  NotifyListeners(
    [m EXCEPT !.state = Put(GetInitialState, <<"buttons">>, Sub(m.state, <<"buttons">>))])

Reset(m) == NotifyListeners([m EXCEPT !.state = GetInitialState])

UpdateMediaUploadStatus(m, status) ==
  \* this.state.mediaUpload read from an undefined state
  IF Nullish(Val(m.state)) THEN Raise(m)
  ELSE LET mediaUpload == Sub(m.state, <<"mediaUpload">>)
           n == NotifyListeners(
                  [m EXCEPT !.state =
                     Put(SpreadObj(m.state), <<"mediaUpload">>,
                         Put(SpreadObj(mediaUpload), <<"status">>, Leaf(status)))])
       IN IF status = "completed" THEN [n EXCEPT !.timers = @ + 1] ELSE n

\* an auto-hide that replaces mediaUpload instead of spreading it
AutoHide_NoSpread(m) ==
  NotifyListeners(
    [m EXCEPT !.timers = @ - 1,
              !.state = Put(SpreadObj(m.state), <<"mediaUpload">>,
                            MkObj([visible |-> Leaf(JFalse), status |-> Leaf("idle")]))])

\* an auto-hide that hides the widget and leaves its status
AutoHide_KeepsStatus(m) ==
  NotifyListeners(
    [m EXCEPT !.timers = @ - 1,
              !.state = Put(@, <<"mediaUpload", "visible">>, Leaf(JFalse))])

\* the setTimeout callback of updateMediaUploadStatus
AutoHide(m) ==
  IF Nullish(Val(m.state)) THEN Raise([m EXCEPT !.timers = @ - 1])
  ELSE LET mediaUpload == Sub(m.state, <<"mediaUpload">>)
       IN NotifyListeners(
            [m EXCEPT !.timers = @ - 1,
                      !.state =
                        Put(SpreadObj(m.state), <<"mediaUpload">>,
                            Put(Put(SpreadObj(mediaUpload), <<"visible">>, Leaf(JFalse)),
                                <<"status">>, Leaf("idle")))])

-----------------------------------------------------------------------------
(* References.  applyUIDirective copies the state one level deep           *)
(* ({...state}) and then writes newState.buttons[id]: the buttons object   *)
(* of the new state is the object of the old one, written in place.        *)
(* applyStateDelta (a deep copy), applySnapshot (the parsed message) and   *)
(* reset (a new literal) install a new buttons object; the status update   *)
(* and the timer keep the object and do not write to it.                   *)
(* A kept value `o` records the state value a reader holds and whether its *)
(* buttons object is the one the manager's state refers to.                *)

NotKept == [held |-> FALSE, state |-> NoTree, shared |-> FALSE]

\* const s = uiManager.getState()
GetState(m) == [held |-> TRUE, state |-> m.state, shared |-> TRUE]

\* what the reader's value looks like after a call that took m0 to m1
AfterDirective(o, m1) ==
  IF o.held /\ o.shared /\ ~m1.raised /\ IsContainer(Get(o.state, <<"buttons">>))
  THEN [o EXCEPT !.state = Put(@, <<"buttons">>, Sub(m1.state, <<"buttons">>))]
  ELSE o

AfterReplace(o, m1) == IF m1.raised THEN o ELSE [o EXCEPT !.shared = FALSE]

AfterMessage(o, message, m1) ==
  IF message.type = "ui-directive" THEN AfterDirective(o, m1)
  ELSE IF message.type \in {"state-snapshot", "state-delta"} THEN AfterReplace(o, m1)
  ELSE o

-----------------------------------------------------------------------------
(* The manager driven by its callers: server messages, the upload widget,  *)
(* reset, and the auto-hide timeout                                        *)

MaxTimers == 1      \* pending auto-hide timeouts

Unused == "unused"

P(f) == f @@ NoProps

\* a state a server sends as a snapshot, and one without the buttons key
ServerState ==
  MkObj([content |-> MkObj([visible |-> Leaf(JTrue), text |-> Leaf("Menu")]),
         mediaUpload |-> MkObj([visible |-> Leaf(JTrue),
                                status |-> Leaf("uploading"),
                                acceptedTypes |-> Arr1(Leaf("image/*")),
                                multiple |-> Leaf(JFalse)]),
         buttons |-> MkObj([ok |-> MkObj([visible |-> Leaf(JTrue),
                                           enabled |-> Leaf(JTrue),
                                           label |-> Leaf("OK"),
                                           style |-> Leaf("primary")])])])

PartialState == Without(ServerState, <<"buttons">>)

ShowUpload == Directive("show-upload", P([accept |-> "video/*", uploadLabel |-> "Pick"]))
ShowButton == Directive("show-button", P([buttonId |-> "ok", buttonLabel |-> "OK", action |-> "go"]))

Directives ==
  { Directive("show-content", P([text |-> "Hi"])),
    Directive("update-content", P([visible |-> JFalse])),
    Directive("hide-content", NoProps),
    ShowUpload,
    Directive("hide-upload", NoProps),
    ShowButton,
    Directive("hide-button", P([buttonId |-> "ok"])),
    Directive("update-button", P([buttonId |-> "ok", enabled |-> JFalse])),
    Directive("blink", NoProps) }

Snapshots == { Snapshot(ServerState), Snapshot(PartialState) }

Deltas ==
  { Delta(<<Patch("replace", <<"", "mediaUpload", "visible">>, Leaf(JTrue))>>),
    Delta(<<Patch("remove", <<"", "buttons">>, NoTree)>>),
    Delta(<<Patch("add", <<"", "content", "text", "x">>, Leaf("v"))>>) }

Messages == Directives \cup Snapshots \cup Deltas

Statuses == {"idle", "uploading", "completed", "error"}

\* a manager constructed with no argument, or with an initial state
InitialStates == {GetInitialState, ServerState}

NoHistory == [last |-> "new", stale |-> << >>, afterReset |-> "no"]

AllStale(h) == [i \in DOMAIN h.stale |-> TRUE]

InitManager ==
  /\ mgr \in {NewManager(s) : s \in InitialStates}
  /\ obs = NotKept
  /\ hist = NoHistory
  /\ hook = Unused /\ net = Unused /\ twin = Unused

\* uiManager.processMessage(message)
DoProcessMessage(message) ==
  /\ mgr' = ProcessMessage(Call(mgr), message)
  /\ obs' = AfterMessage(obs, message, mgr')
  /\ hist' = [hist EXCEPT !.last = message.type,
                          !.afterReset = "no",
                          !.stale = IF message.type = "ui-directive"
                                       /\ message.action = "show-upload"
                                    THEN AllStale(hist) ELSE @]
  /\ UNCHANGED <<hook, net, twin>>

\* uiManager.reset()
DoReset ==
  /\ mgr' = Reset(Call(mgr))
  /\ obs' = AfterReplace(obs, mgr')
  /\ hist' = [hist EXCEPT !.last = "reset",
                          !.afterReset = IF mgr.timers > 0 THEN "reset" ELSE "no"]
  /\ UNCHANGED <<hook, net, twin>>

\* uiManager.updateMediaUploadStatus(status)
DoUpdateMediaUploadStatus(status) ==
  /\ status = "completed" => mgr.timers < MaxTimers
  /\ mgr' = UpdateMediaUploadStatus(Call(mgr), status)
  /\ obs' = obs
  /\ hist' = [hist EXCEPT !.last = "status",
                          !.afterReset = "no",
                          !.stale = IF mgr'.timers > mgr.timers
                                    THEN Append(AllStale(hist), FALSE)
                                    ELSE AllStale(hist)]
  /\ UNCHANGED <<hook, net, twin>>

\* the timeout set by updateMediaUploadStatus('completed') expires
TimerFires ==
  /\ mgr.timers > 0
  /\ mgr' = AutoHide(Call(mgr))
  /\ obs' = obs
  /\ hist' = [hist EXCEPT !.last = "timer",
                          !.stale = Tail(@),
                          !.afterReset = IF @ = "no" THEN "no" ELSE "fired"]
  /\ UNCHANGED <<hook, net, twin>>

Next ==
  \/ \E message \in Messages : DoProcessMessage(message)
  \/ DoReset
  \/ \E status \in Statuses : DoUpdateMediaUploadStatus(status)
  \/ TimerFires

Spec == InitManager /\ [][Next]_vars

-----------------------------------------------------------------------------
(* A reader that keeps what getState() returned *)

KeptMessages ==
  { ShowButton,
    Directive("hide-button", P([buttonId |-> "ok"])),
    Directive("update-button", P([buttonId |-> "ok", enabled |-> JFalse])),
    Directive("hide-content", NoProps),
    Snapshot(ServerState),
    Delta(<<Patch("replace", <<"", "mediaUpload", "visible">>, Leaf(JTrue))>>) }

\* const s = uiManager.getState()
DoGetState ==
  /\ obs' = GetState(mgr)
  /\ hist' = [hist EXCEPT !.last = "getState"]
  /\ UNCHANGED <<mgr, hook, net, twin>>

NextKept ==
  \/ \E message \in KeptMessages : DoProcessMessage(message)
  \/ DoReset
  \/ DoUpdateMediaUploadStatus("completed")
  \/ TimerFires
  \/ DoGetState

SpecKept == InitManager /\ [][NextKept]_vars

-----------------------------------------------------------------------------
(* processMessage against applyDirective: the same directives are given to *)
(* one manager through processMessage and to a second one (twin) through   *)
(* applyDirective                                                          *)

MaxDirectives == 3      \* length of the directive sequence

InitDispatch ==
  /\ mgr \in {NewManager(s) : s \in InitialStates \cup {PartialState}}
  /\ twin = mgr
  /\ hist = [n |-> 0, notified |-> 0, twinNotified |-> 0]
  /\ obs = NotKept /\ hook = Unused /\ net = Unused

DispatchBoth(directive) ==
  /\ hist.n < MaxDirectives
  /\ mgr' = ProcessMessage(Call(mgr), directive)
  /\ twin' = ApplyDirective(Call(twin), directive)
  /\ hist' = [n |-> hist.n + 1,
              notified |-> hist.notified + mgr'.notified,
              twinNotified |-> hist.twinNotified + twin'.notified]
  /\ UNCHANGED <<obs, hook, net>>

NextDispatch == \E directive \in Directives : DispatchBoth(directive)

SpecDispatch == InitDispatch /\ [][NextDispatch]_vars

-----------------------------------------------------------------------------
(* The response body.  A stream is a list of frames; frame number i is     *)
(* written as the text 'data: <payload>' and is modelled as two symbols,   *)
(* <<i, 1>> (which holds the 'data: ' marker) and <<i, 2>>, so that a      *)
(* chunk can end inside a frame.  NL is one newline character; the         *)
(* blank-line delimiter is two of them.  Text (a chat message's content)   *)
(* is a sequence of non-empty strings, standing for their concatenation.   *)

NL == <<0, 0>>

FrameText(i) == << <<i, 1>>, <<i, 2>> >>

\* a frame's payload: marker (the line starts with 'data: '), json (the
\* payload parses), and the fields of the parsed object the hook reads
Frame(type) ==
  [marker |-> TRUE, json |-> TRUE, sentinel |-> FALSE, done |-> FALSE,
   type |-> type, content |-> Undef, first |-> NoTree, msg |-> Unused]

UIFrame(message) == [Frame(message.type) EXCEPT !.msg = message]
TextDelta(content) == [Frame("text-delta") EXCEPT !.content = content]
\* {type:'response-messages', messages:[first, ...]}
ResponseMessages(first) == [Frame("response-messages") EXCEPT !.first = first]
ErrorFrame(content) == [Frame("error") EXCEPT !.content = content]
DoneFrame == [Frame(Undef) EXCEPT !.json = FALSE, !.sentinel = TRUE]   \* data: [DONE]
BadFrame == [Frame(Undef) EXCEPT !.json = FALSE]                       \* data: {oops

\* the body: every frame followed by the blank line, the last one only
\* when the stream is `closed`
RECURSIVE BodyFrom(_, _, _)
BodyFrom(i, n, closed) ==
  IF i > n THEN << >>
  ELSE FrameText(i) \o (IF i < n \/ closed THEN <<NL, NL>> ELSE << >>)
       \o BodyFrom(i + 1, n, closed)

Body(frames, closed) == BodyFrom(1, Len(frames), closed)

Text(s) == IF s \in {"", Undef} THEN << >> ELSE <<s>>

\* text.split('\n\n'), `cur` being the piece collected so far
RECURSIVE SplitFrom(_, _)
SplitFrom(text, cur) ==
  IF text = << >> THEN <<cur>>
  ELSE IF Len(text) >= 2 /\ text[1] = NL /\ text[2] = NL
  THEN <<cur>> \o SplitFrom(SubSeq(text, 3, Len(text)), << >>)
  ELSE SplitFrom(Tail(text), Append(cur, Head(text)))

Split(text) == SplitFrom(text, << >>)

\* String.prototype.trim on the end of a piece (newlines are white space)
RECURSIVE TrimEnd(_)
TrimEnd(data) ==
  IF data # << >> /\ data[Len(data)] = NL
  THEN TrimEnd(SubSeq(data, 1, Len(data) - 1)) ELSE data

-----------------------------------------------------------------------------
(* parseSSEData *)

NullParsed == [null |-> TRUE, done |-> FALSE, frame |-> 0]
Parsed(frames, i) == [null |-> FALSE, done |-> frames[i].done, frame |-> i]

ParseSSEData(frames, data) ==
  IF data = << >> \/ data[1][2] # 1 \/ ~frames[data[1][1]].marker
  THEN NullParsed                                   \* !data.startsWith('data: ')
  ELSE LET i == data[1][1]
           jsonData == TrimEnd(data)
       IN IF jsonData # FrameText(i) THEN NullParsed        \* JSON.parse throws
          ELSE IF frames[i].sentinel THEN [null |-> FALSE, done |-> TRUE, frame |-> i]
          ELSE IF frames[i].json THEN Parsed(frames, i)
          ELSE NullParsed

-----------------------------------------------------------------------------
(* useAgUIClientWithUIManager.  A client c is the manager, the hook        *)
(* (isLoading, abortControllerRef, one record per sendMessage call), the   *)
(* responses (net) and a log (hist): the call whose response last reset    *)
(* the manager and the <<call, frame>> pairs handed to processMessage      *)
(* since.  A call's record also lists the frames it handed over.           *)

NewTurn ==
  [pc |-> "fetch", aborted |-> FALSE, streamed |-> FALSE, finalContent |-> << >>,
   buffer |-> << >>, shown |-> << >>, halt |-> "no", onError |-> FALSE,
   forwarded |-> << >>]

NoResponse == [frames |-> << >>, body |-> << >>, pos |-> 0]
IdleHook == [isLoading |-> FALSE, abortRef |-> 0, turns |-> << >>]
NoStream == [owner |-> 0, log |-> << >>]

Client(m) == [mgr |-> m, hook |-> IdleHook, hist |-> NoStream, net |-> << >>]

IsString(v) == v \notin {Undef, JTrue, JFalse, JNull, JZero, ObjTag, ArrTag}

\* the content taken from messages[0] of a response-messages frame
MessageContent(serverMessage) ==
  LET content == Sub(serverMessage, <<"content">>)
  IN IF IsString(Val(content)) THEN Text(Val(content))
     ELSE IF Truthy(Get(content, <<"text">>)) THEN Text(Get(content, <<"text">>))
     ELSE IF Truthy(Get(content, <<"content">>)) THEN Text(Get(content, <<"content">>))
     ELSE << >>

\* sendMessage up to `await fetch`: the guard is the caller's
SendMessage(c) ==
  [c EXCEPT !.hook.isLoading = TRUE,
            !.hook.abortRef = Len(c.hook.turns) + 1,
            !.hook.turns = Append(@, NewTurn),
            !.net = Append(@, NoResponse)]

\* a finally block that ends the call and leaves the flag and the ref alone
Finally_KeepsLoading(c, i) ==
  [c EXCEPT !.hook.turns[i].pc = "ended", !.hook.turns[i].aborted = FALSE,
            !.net[i] = [@ EXCEPT !.body = << >>, !.pos = 0]]

\* the outer finally block
Finally(c, i) ==
  LET t == c.hook.turns[i]
  IN [c EXCEPT !.hook.isLoading = FALSE,
               !.hook.abortRef = 0,
               !.hook.turns[i] = [t EXCEPT !.pc = "ended", !.aborted = FALSE,
                                           !.buffer = << >>,
                                           !.shown = IF t.finalContent # << >>
                                                     THEN t.finalContent ELSE @],
               !.net[i] = [@ EXCEPT !.body = << >>, !.pos = 0]]

\* the catch block
Catch(c, i, name) ==
  IF name = "AbortError" THEN [c EXCEPT !.hook.turns[i].halt = "abort"]
  ELSE [c EXCEPT !.hook.turns[i].onError = TRUE,
                 !.hook.turns[i].shown = <<"Error: ", name>>,
                 !.hook.turns[i].halt = IF name = "TypeError" THEN "raised" ELSE "failed"]

\* uiManager.processMessage(parsed) has returned m, or thrown
Forwarded(c, i, frame, m) ==
  Once(LAMBDA res : [c EXCEPT !.mgr = res,
                              !.hist.log = Append(@, <<i, frame>>),
                              !.hook.turns[i].forwarded = Append(@, frame),
                              !.hook.turns[i].halt = IF res.raised THEN "raised" ELSE @],
       m)

\* finalContent = text; setMessages(... content: finalContent ...)
Say(c, i, text, halt) ==
  [c EXCEPT !.hook.turns[i].finalContent = text,
            !.hook.turns[i].shown = text,
            !.hook.turns[i].halt = halt]

\* a loop that also hands the text of a text-delta frame to the manager
HandleFrame_TextToManager(c, i, frame, f, incremental) ==
  IF f.type \in {"ui-directive", "state-snapshot", "state-delta"}
  THEN Forwarded(c, i, frame, ProcessMessage(c.mgr, f.msg))
  ELSE IF f.type = "text-delta"
  THEN Say([c EXCEPT !.mgr = ProcessMessage(c.mgr, Directive("show-content",
                                                             [NoProps EXCEPT !.text = f.content]))],
           i, c.hook.turns[i].finalContent \o Text(f.content), "no")
  ELSE IF f.type = "response-messages" /\ Truthy(Val(f.first))
  THEN Say(c, i, MessageContent(f.first), "no")
  ELSE IF incremental /\ f.type = "error"
  THEN Say(c, i, <<"Error: ">> \o Text(f.content), "error")
  ELSE c

\* the branch taken for a parsed frame, in the loop of either mode
HandleFrame(c, i, frame, f, incremental) ==
  IF f.type \in {"ui-directive", "state-snapshot", "state-delta"}
  THEN Forwarded(c, i, frame, ProcessMessage(c.mgr, f.msg))
  ELSE IF f.type = "text-delta"
  THEN Say(c, i, c.hook.turns[i].finalContent
                   \o (IF f.content = Undef THEN <<"undefined">> ELSE Text(f.content)),
           "no")
  ELSE IF f.type = "response-messages" /\ Truthy(Val(f.first))
  THEN Say(c, i, MessageContent(f.first), "no")
  ELSE IF incremental /\ f.type = "error"
  THEN Say(c, i, <<"Error: ">>
                   \o Text(IF Truthy(f.content) THEN f.content ELSE "Unknown error"),
           "error")
  ELSE c

\* const parsed = parseSSEData(line); if (!parsed) continue; if it is the
\* sentinel or has a truthy done, leave the loop; else the branch of its type
HandleParsed(c, i, parsed, incremental) ==
  Once(LAMBDA p :
         IF p.null THEN c
         ELSE IF p.done THEN [c EXCEPT !.hook.turns[i].halt = "done"]
         ELSE Once(LAMBDA f : HandleFrame(c, i, p.frame, f, incremental),
                   c.net[i].frames[p.frame]),
       parsed)

HandleLine(c, i, line, incremental) ==
  HandleParsed(c, i, ParseSSEData(c.net[i].frames, line), incremental)

\* a loop that walks the lines of a chunk from the last to the first
RECURSIVE ProcessLines_Backwards(_, _, _, _)
ProcessLines_Backwards(c, i, lines, incremental) ==
  IF lines = << >> \/ c.hook.turns[i].halt # "no" THEN c
  ELSE ProcessLines_Backwards(HandleLine(c, i, lines[Len(lines)], incremental), i,
                              SubSeq(lines, 1, Len(lines) - 1), incremental)

\* for (const line of lines) { ... }: left at the sentinel (break), at an
\* error frame (return) and when processMessage throws
RECURSIVE ProcessLines(_, _, _, _)
ProcessLines(c, i, lines, incremental) ==
  IF lines = << >> \/ c.hook.turns[i].halt # "no" THEN c
  ELSE Once(LAMBDA next : ProcessLines(next, i, Tail(lines), incremental),
            HandleLine(c, i, Head(lines), incremental))

\* the catch block when processMessage threw, then the outer finally
Close(c, i) ==
  IF c.mgr.raised THEN Finally(Catch(c, i, "TypeError"), i) ELSE Finally(c, i)

\* if (buffer.trim()) { ... }: only a UI message left in the buffer is used
FlushParsed(c, i, parsed) ==
  IF ~parsed.null /\ ~parsed.done
     /\ c.net[i].frames[parsed.frame].type
          \in {"ui-directive", "state-snapshot", "state-delta"}
  THEN HandleParsed(c, i, parsed, TRUE) ELSE c

\* the code after the while loop: the remaining buffer, then the finally blocks
EndOfStream(c, i) ==
  Once(LAMBDA flushed : Close(flushed, i),
       IF c.hook.turns[i].buffer = << >> THEN c
       ELSE FlushParsed(c, i, ParseSSEData(c.net[i].frames, c.hook.turns[i].buffer)))

\* `await fetch` returns a response that is ok: reset, then the mode
FetchOk(c, i, frames, closed, streamed) ==
  [c EXCEPT !.mgr = Reset(Call(c.mgr)),
            !.hist = [owner |-> i, log |-> << >>],
            !.net[i] = [frames |-> frames, body |-> Body(frames, closed), pos |-> 0],
            !.hook.turns[i].pc = IF streamed THEN "read" ELSE "text",
            !.hook.turns[i].streamed = streamed]

FetchNotOk(c, i) == Finally([c EXCEPT !.hook.turns[i].halt = "http"], i)
FetchThrows(c, i) == Finally(Catch(c, i, "NetworkError"), i)

\* whole-body mode: `await response.text()` returns
TextReturns(c, i) ==
  Once(LAMBDA lines :
         Once(LAMBDA done : Close(done, i),
              ProcessLines([c EXCEPT !.mgr = Call(@)], i, lines, FALSE)),
       Split(c.net[i].body))

\* after the for loop of one chunk: out of the while loop or around it
AfterLines(c, i) ==
  CASE c.hook.turns[i].halt = "raised" -> Close(c, i)
    [] c.hook.turns[i].halt = "error" -> Finally(c, i)
    [] c.hook.turns[i].halt = "done" -> EndOfStream(c, i)
    [] OTHER -> c

\* buffer += chunk; lines = buffer.split('\n\n'); buffer = lines.pop() || ''
ReadLines(c, i, k, lines) ==
  Once(LAMBDA done : AfterLines(done, i),
       ProcessLines([c EXCEPT !.mgr = Call(@),
                              !.net[i].pos = @ + k,
                              !.hook.turns[i].buffer = lines[Len(lines)]],
                    i, SubSeq(lines, 1, Len(lines) - 1), TRUE))

\* incremental mode: `await reader.read()` returns the next k characters
ReadReturns(c, i, k) ==
  Once(LAMBDA lines : ReadLines(c, i, k, lines),
       Split(c.hook.turns[i].buffer
               \o SubSeq(c.net[i].body, c.net[i].pos + 1, c.net[i].pos + k)))

\* `await reader.read()` returns done
ReadDone(c, i) == EndOfStream([c EXCEPT !.mgr = Call(@)], i)

\* `await reader.read()` rejects (network error)
ReadThrows(c, i) == Finally(Catch(c, i, "NetworkError"), i)

CancelRequest(c) ==
  IF c.hook.abortRef = 0 THEN c
  ELSE [c EXCEPT !.hook.turns[c.hook.abortRef].aborted = TRUE,
                 !.hook.abortRef = 0,
                 !.hook.isLoading = FALSE]

\* the pending await of an aborted call rejects with an AbortError
AbortDelivered(c, i) == Finally(Catch(c, i, "AbortError"), i)

-----------------------------------------------------------------------------
(* The hook driven by the user and the transport: turns one after another  *)

MaxTurns == 2       \* sendMessage calls in a run

ShowContent == Directive("show-content", P([text |-> "Hi"]))
HideUploadDelta ==
  Delta(<<Patch("replace", <<"", "mediaUpload", "visible">>, Leaf(JFalse))>>)

Stream(frames, closed) == [frames |-> frames, closed |-> closed]

UploadFrames == <<UIFrame(ShowUpload), UIFrame(HideUploadDelta), DoneFrame>>
ErrorFrames == <<UIFrame(ShowContent), ErrorFrame("boom"), UIFrame(ShowButton)>>
ThrowFrames == <<UIFrame(Snapshot(PartialState)), UIFrame(ShowButton), UIFrame(ShowContent)>>

TailFrames == <<TextDelta("Hello"), UIFrame(ShowContent)>>

TurnStreams ==
  {Stream(UploadFrames, TRUE), Stream(ErrorFrames, FALSE), Stream(ThrowFrames, TRUE),
   Stream(TailFrames, FALSE)}

\* the sizes of the chunks a read delivers (three characters: the cuts fall
\* inside a delimiter and inside a frame), besides all that is left
ChunkSizes == {3}

Me == [mgr |-> mgr, hook |-> hook, hist |-> hist, net |-> net]

Becomes(c) ==
  \E next \in {c} :
    /\ mgr' = next.mgr /\ hook' = next.hook /\ hist' = next.hist /\ net' = next.net
  /\ UNCHANGED <<obs, twin>>

Awaiting(c, i, pc) ==
  i \in DOMAIN c.hook.turns /\ c.hook.turns[i].pc = pc /\ ~c.hook.turns[i].aborted

InitTurn ==
  /\ mgr = NewManager(GetInitialState)
  /\ hook = IdleHook /\ hist = NoStream /\ net = << >>
  /\ obs = NotKept /\ twin = Unused

\* sendMessage(content) with a non-blank content
DoSendMessage ==
  /\ ~hook.isLoading
  /\ Len(hook.turns) < MaxTurns
  /\ Becomes(SendMessage(Me))

FetchReturnsOk(i, stream, streamed) ==
  /\ Awaiting(Me, i, "fetch")
  /\ Becomes(FetchOk(Me, i, stream.frames, stream.closed, streamed))

FetchReturnsNotOk(i) == Awaiting(Me, i, "fetch") /\ Becomes(FetchNotOk(Me, i))

FetchRejects(i) == Awaiting(Me, i, "fetch") /\ Becomes(FetchThrows(Me, i))

DoTextReturns(i) == Awaiting(Me, i, "text") /\ Becomes(TextReturns(Me, i))

DoReadReturns(i) ==
  /\ Awaiting(Me, i, "read")
  /\ \E k \in 1..(Len(net[i].body) - net[i].pos) :
       /\ k \in ChunkSizes \/ k = Len(net[i].body) - net[i].pos
       /\ Becomes(ReadReturns(Me, i, k))

\* a read that delivers a chunk of any size
DoReadReturnsAny(i) ==
  /\ Awaiting(Me, i, "read")
  /\ \E k \in 1..(Len(net[i].body) - net[i].pos) : Becomes(ReadReturns(Me, i, k))

DoReadDone(i) ==
  /\ Awaiting(Me, i, "read")
  /\ net[i].pos = Len(net[i].body)
  /\ Becomes(ReadDone(Me, i))

DoReadThrows(i) == Awaiting(Me, i, "read") /\ Becomes(ReadThrows(Me, i))

DoCancelRequest == hook.abortRef # 0 /\ Becomes(CancelRequest(Me))

DoAbortDelivered(i) ==
  /\ i \in DOMAIN hook.turns
  /\ hook.turns[i].aborted
  /\ Becomes(AbortDelivered(Me, i))

NextTurn ==
  \/ DoSendMessage
  \/ \E i \in 1..MaxTurns :
       \/ \E stream \in TurnStreams, streamed \in BOOLEAN : FetchReturnsOk(i, stream, streamed)
       \/ FetchReturnsNotOk(i)
       \/ FetchRejects(i)
       \/ DoTextReturns(i)
       \/ DoReadReturns(i)
       \/ DoReadDone(i)
       \/ DoReadThrows(i)
       \/ DoAbortDelivered(i)
  \/ DoCancelRequest

SpecTurn == InitTurn /\ [][NextTurn]_vars

-----------------------------------------------------------------------------
(* One response body given to two clients: the first reads it in chunks,   *)
(* the second (twin) reads it in chunks of its own or as a whole           *)

LateFrames == <<TextDelta("Hello"), DoneFrame, UIFrame(ShowButton)>>
TailTextFrames == <<UIFrame(ShowUpload), TextDelta("Hi")>>
ReplyFrames == <<TextDelta("Hel"),
                 ResponseMessages(MkObj([content |-> Leaf("Hello")])),
                 DoneFrame>>

DemuxStreams ==
  {Stream(f, closed) : f \in {UploadFrames, ErrorFrames, LateFrames,
                              TailTextFrames, ReplyFrames},
                       closed \in BOOLEAN}

InitDemux ==
  /\ mgr = NewManager(GetInitialState)
  /\ hook = IdleHook /\ hist = NoStream /\ net = << >>
  /\ twin = Client(NewManager(GetInitialState))
  /\ obs = NotKept

\* the same content is sent from both clients
BothSend ==
  /\ hook.turns = << >> /\ twin.hook.turns = << >>
  /\ mgr' = SendMessage(Me).mgr /\ hook' = SendMessage(Me).hook
  /\ hist' = SendMessage(Me).hist /\ net' = SendMessage(Me).net
  /\ twin' = SendMessage(twin)
  /\ UNCHANGED obs

\* both requests are answered with the same body
BothFetchOk ==
  /\ Awaiting(Me, 1, "fetch") /\ Awaiting(twin, 1, "fetch")
  /\ \E stream \in DemuxStreams, twinStreamed \in BOOLEAN :
       /\ mgr' = FetchOk(Me, 1, stream.frames, stream.closed, TRUE).mgr
       /\ hook' = FetchOk(Me, 1, stream.frames, stream.closed, TRUE).hook
       /\ hist' = FetchOk(Me, 1, stream.frames, stream.closed, TRUE).hist
       /\ net' = FetchOk(Me, 1, stream.frames, stream.closed, TRUE).net
       /\ twin' = FetchOk(twin, 1, stream.frames, stream.closed, twinStreamed)
  /\ UNCHANGED obs

TwinReadReturns ==
  /\ Awaiting(twin, 1, "read")
  /\ \E k \in 1..(Len(twin.net[1].body) - twin.net[1].pos) :
       twin' = ReadReturns(twin, 1, k)
  /\ UNCHANGED <<mgr, obs, hist, hook, net>>

TwinReadDone ==
  /\ Awaiting(twin, 1, "read")
  /\ twin.net[1].pos = Len(twin.net[1].body)
  /\ twin' = ReadDone(twin, 1)
  /\ UNCHANGED <<mgr, obs, hist, hook, net>>

TwinTextReturns ==
  /\ Awaiting(twin, 1, "text")
  /\ twin' = TextReturns(twin, 1)
  /\ UNCHANGED <<mgr, obs, hist, hook, net>>

NextDemux ==
  \/ BothSend
  \/ BothFetchOk
  \/ DoReadReturnsAny(1)
  \/ DoReadDone(1)
  \/ TwinReadReturns
  \/ TwinReadDone
  \/ TwinTextReturns

SpecDemux == InitDemux /\ [][NextDemux]_vars

-----------------------------------------------------------------------------
(* One turn of the hook on one response, read in either mode *)

ShowUploadImage == Directive("show-upload", P([accept |-> "image/*"]))
RemoveButtons == Delta(<<Patch("remove", <<"", "buttons">>, NoTree)>>)
Reply(text) == ResponseMessages(MkObj([content |-> Leaf(text)]))

\* streams of text-delta and UI frames that end with the sentinel
FoldStreams ==
  { <<TextDelta("Hello"), UIFrame(ShowUploadImage), DoneFrame>>,
    <<UIFrame(ShowUpload), TextDelta("Hel"), UIFrame(HideUploadDelta), TextDelta("lo"),
      DoneFrame>>,
    <<TextDelta("Hello"), UIFrame(RemoveButtons), UIFrame(ShowButton), TextDelta("!"),
      DoneFrame>> }

\* streams with an error frame, a response-messages frame, a frame of an
\* unknown type
OtherStreams ==
  { ErrorFrames,
    <<TextDelta("Hel"), ErrorFrame("boom"), TextDelta("lo"), DoneFrame>>,
    ReplyFrames,
    <<Reply("Hello"), TextDelta("!"), UIFrame(ShowContent), DoneFrame>>,
    <<TextDelta("Hello"), Frame("heartbeat"), UIFrame(ShowButton)>> }

OneTurnStreams ==
  {Stream(f, TRUE) : f \in FoldStreams \cup OtherStreams}
    \cup {Stream(f, FALSE) : f \in OtherStreams}

SendOnce == hook.turns = << >> /\ Becomes(SendMessage(Me))

NextStream ==
  \/ SendOnce
  \/ \E stream \in OneTurnStreams, streamed \in BOOLEAN : FetchReturnsOk(1, stream, streamed)
  \/ DoTextReturns(1)
  \/ DoReadReturnsAny(1)
  \/ DoReadDone(1)

SpecStream == InitTurn /\ [][NextStream]_vars

-----------------------------------------------------------------------------
(* Two clients in the same mode: the first is given a body with one frame  *)
(* more than the body of the second (twin), a frame that is no message     *)

\* payloads that are no message: not JSON, a line without the marker, JSON
\* without a type (5, [], {"x":1}), an unknown type, and {"done":true}
NoMarkerFrame == [Frame(Undef) EXCEPT !.marker = FALSE]
UntypedFrame == Frame(Undef)
UnknownTypeFrame == Frame("heartbeat")
DoneObjectFrame == [Frame(Undef) EXCEPT !.done = TRUE]

MalformedFrames ==
  {BadFrame, NoMarkerFrame, UntypedFrame, UnknownTypeFrame, DoneObjectFrame}

HealthyStreams ==
  { <<TextDelta("Hel"), UIFrame(ShowUpload), TextDelta("lo"), DoneFrame>>,
    <<UIFrame(ShowContent), TextDelta("Hi")>> }

\* frames with frame f put in front of position k
InsertAt(frames, k, f) ==
  SubSeq(frames, 1, k - 1) \o <<f>> \o SubSeq(frames, k, Len(frames))

InitPair ==
  /\ mgr = NewManager(GetInitialState)
  /\ hook = IdleHook /\ hist = NoStream /\ net = << >>
  /\ twin = Client(NewManager(GetInitialState))
  /\ obs = NotKept

\* both requests are answered in the same mode, the first with the extra frame
FetchOkWithExtra ==
  /\ Awaiting(Me, 1, "fetch") /\ Awaiting(twin, 1, "fetch")
  /\ \E frames \in HealthyStreams, f \in MalformedFrames, streamed \in BOOLEAN :
       \E k \in 1..Len(frames) :
         /\ mgr' = FetchOk(Me, 1, InsertAt(frames, k, f), TRUE, streamed).mgr
         /\ hook' = FetchOk(Me, 1, InsertAt(frames, k, f), TRUE, streamed).hook
         /\ hist' = FetchOk(Me, 1, InsertAt(frames, k, f), TRUE, streamed).hist
         /\ net' = FetchOk(Me, 1, InsertAt(frames, k, f), TRUE, streamed).net
         /\ twin' = FetchOk(twin, 1, frames, TRUE, streamed)
  /\ UNCHANGED obs

NextPair ==
  \/ BothSend
  \/ FetchOkWithExtra
  \/ DoReadReturns(1)
  \/ DoReadDone(1)
  \/ DoTextReturns(1)
  \/ TwinReadReturns
  \/ TwinReadDone
  \/ TwinTextReturns

SpecPair == InitPair /\ [][NextPair]_vars

-----------------------------------------------------------------------------
(* One manager given a message, and what it would be had it been given a    *)
(* sibling message instead (twin): a batch without its test operation, a   *)
(* path without the '/ui' prefix, a snapshot without the ui wrapper         *)

MaxPairs == 2       \* messages in a run

TestOps ==
  { Patch("test", <<"", "content", "visible">>, Leaf(JTrue)),
    Patch("test", <<"", "content", "text">>, Leaf("Menu")),
    Patch("test", <<"", "buttons", "ok", "enabled">>, Leaf(JTrue)) }

Batches ==
  { << >>,
    <<Patch("replace", <<"", "content", "text">>, Leaf("X"))>>,
    <<Patch("replace", <<"", "mediaUpload", "visible">>, Leaf(JTrue)),
      Patch("remove", <<"", "content", "text">>, NoTree)>> }

\* path.split('/') of '/mediaUpload/visible', '/content/text',
\* '/buttons/ok/label', '', '//ui/content/text' and 'content/text'
Paths ==
  { <<"", "mediaUpload", "visible">>,
    <<"", "content", "text">>,
    <<"", "buttons", "ok", "label">>,
    <<"">>,
    <<"", "", "ui", "content", "text">>,
    <<"content", "text">> }

\* ('/ui' + path).split('/') from path.split('/')
UiPrefixed(path) ==
  IF Head(path) = "" THEN <<"", "ui">> \o Tail(path)
  ELSE <<"", "ui" \o Head(path)>> \o Tail(path)

\* the server state with a second button
TwoButtonState ==
  Put(ServerState, <<"buttons", "cancel">>,
      MkObj([visible |-> Leaf(JFalse), enabled |-> Leaf(JTrue),
             label |-> Leaf("Cancel"), action |-> Leaf("stop"),
             style |-> Leaf("secondary")]))

UIStates == {GetInitialState, ServerState, TwoButtonState, PartialState}

ButtonProps ==
  { P([buttonId |-> "ok", enabled |-> JFalse]),
    P([buttonId |-> "ok", buttonLabel |-> "Go", action |-> "go", style |-> "danger"]),
    P([buttonId |-> "ok", buttonLabel |-> ""]),
    P([buttonId |-> "ok", enabled |-> JNull, style |-> ""]),
    P([buttonId |-> "cancel", action |-> "halt"]) }

InitTwin ==
  /\ mgr \in {NewManager(s) : s \in InitialStates}
  /\ twin = mgr
  /\ hist = [kind |-> "new", n |-> 0, arg |-> Unused]
  /\ obs = NotKept /\ hook = Unused /\ net = Unused

Paired(kind, arg, m, t) ==
  /\ hist.n < MaxPairs
  /\ mgr' = m
  /\ twin' = t
  /\ hist' = [kind |-> kind, n |-> hist.n + 1, arg |-> arg]
  /\ UNCHANGED <<obs, hook, net>>

\* a batch with a test operation put in at position k, and the batch without
TestBoth ==
  \E batch \in Batches, test \in TestOps :
    \E k \in 1..(Len(batch) + 1) :
      Paired("test", Unused,
             ApplyDelta(Call(mgr), Delta(InsertAt(batch, k, test))),
             ApplyDelta(Call(mgr), Delta(batch)))

\* one operation addressed at '/ui' + path, and addressed at path
NamespaceBoth ==
  \E op \in {"replace", "remove"}, path \in Paths :
    Paired("ui", path,
           ApplyDelta(Call(mgr), Delta(<<Patch(op, UiPrefixed(path), Leaf("X"))>>)),
           ApplyDelta(Call(mgr), Delta(<<Patch(op, path, Leaf("X"))>>)))

\* a snapshot {state: {ui: S}}, and {state: S}
SnapshotBoth ==
  \E S \in UIStates :
    Paired("snapshot", S,
           ApplySnapshot(Call(mgr), Snapshot(MkObj([ui |-> S]))),
           ApplySnapshot(Call(mgr), Snapshot(S)))

\* update-button; twin keeps the manager as it was before
UpdateButton ==
  \E props \in ButtonProps :
    Paired("update-button", props,
           ProcessMessage(Call(mgr), Directive("update-button", props)),
           Call(mgr))

\* directives of every action, with and without a buttonId, naming a button
\* that exists in some states ('ok', 'cancel') and one that never does
TwinDirectives ==
  Directives \cup
  { Directive("cancel-upload", NoProps),
    Directive("show-upload", NoProps),
    Directive("show-upload", P([accept |-> "", multiple |-> JTrue])),
    Directive("show-button", P([buttonLabel |-> "OK"])),
    Directive("show-button", P([buttonId |-> "", buttonLabel |-> "OK"])),
    Directive("show-button", P([buttonId |-> "cancel", style |-> "danger"])),
    Directive("show-button", P([buttonId |-> "ok", enabled |-> JFalse, style |-> ""])),
    Directive("hide-button", NoProps),
    Directive("hide-button", P([buttonId |-> "none"])),
    Directive("update-button", P([enabled |-> JFalse])),
    Directive("update-button", P([buttonId |-> "none", buttonLabel |-> "Go"])) }

\* one directive; twin keeps the manager as it was before
OneDirective ==
  \E directive \in TwinDirectives :
    Paired("directive", directive,
           ProcessMessage(Call(mgr), directive),
           Call(mgr))

\* messages of the stream that are no UI state messages, and messages whose
\* type is misspelt or missing
OtherMessages ==
  { [type |-> "text-delta", content |-> "Hi"],
    [type |-> "error", error |-> "boom"],
    [type |-> "UI-Directive", action |-> "show-content", props |-> P([text |-> "Hi"])],
    [type |-> Undef, state |-> ServerState] }

\* one message of another type; twin keeps the manager as it was before
OtherType ==
  \E message \in OtherMessages :
    Paired("other", message.type,
           ProcessMessage(Call(mgr), message),
           Call(mgr))

NextTwin ==
  \/ TestBoth \/ NamespaceBoth \/ SnapshotBoth
  \/ UpdateButton \/ OneDirective \/ OtherType

SpecTwin == InitTwin /\ [][NextTwin]_vars

-----------------------------------------------------------------------------
(* Listeners.  this.listeners is a Set: subscribe adds at the end (a      *)
(* function that is in the set is not added again), the function returned *)
(* by subscribe deletes, and notifyListeners walks the set with forEach.   *)
(* Set.prototype.forEach walks the live list of entries: an entry deleted  *)
(* before it is reached is not visited, and deleting an entry does not     *)
(* move the others.  A registry records the entries in insertion order,    *)
(* the listeners subscribed so far, and those whose unsubscribe function   *)
(* has been called.                                                        *)

MaxCalls == 3       \* calls made to the manager in a run

Empty == "#empty"   \* a deleted entry, during a walk

NoListeners == [entries |-> << >>, ever |-> {}, off |-> {}]

\* this.listeners.add(listener)
Subscribe(reg, l) ==
  [reg EXCEPT !.entries = IF \E i \in DOMAIN @ : @[i] = l THEN @ ELSE Append(@, l),
              !.ever = @ \cup {l}]

\* this.listeners.delete(listener), outside a walk
Unsubscribe(reg, l) ==
  [reg EXCEPT !.entries = SelectSeq(@, LAMBDA x : x # l),
              !.off = @ \cup {l}]

\* an array of listeners spliced during a walk: the entries behind move up
Delete_Splice(entries, l) == SelectSeq(entries, LAMBDA x : x # l)

\* this.listeners.delete(listener), during a walk
Delete(entries, l) ==
  [i \in DOMAIN entries |-> IF entries[i] = l THEN Empty ELSE entries[i]]

\* What the listeners do when invoked: 'a' is the provider's listener
\* (setUIState, part_001), 'b' calls its own unsubscribe function, 'c' calls
\* the unsubscribe function of 'a' when 'a' has subscribed.
Unsubscribed(l, ever) ==
  IF l = "b" THEN {"b"}
  ELSE IF l = "c" /\ "a" \in ever THEN {"a"}
  ELSE {}

RECURSIVE DeleteAll(_, _)
DeleteAll(entries, ls) ==
  IF ls = {} THEN entries
  ELSE LET l == CHOOSE x \in ls : TRUE
       IN DeleteAll(Delete(entries, l), ls \ {l})

\* a walk over a copy of the set taken when the walk starts
RECURSIVE ForEach_Copy(_, _, _, _)
ForEach_Copy(walk, i, state, ever) ==
  IF i > Len(walk.entries)
  THEN [walk EXCEPT !.entries = SelectSeq(@, LAMBDA x : x \notin walk.off)]
  ELSE LET l == walk.entries[i]
       IN ForEach_Copy(
            [walk EXCEPT !.off = @ \cup Unsubscribed(l, ever),
                         !.calls = Append(@, [listener |-> l, state |-> state,
                                              late |-> l \in walk.off])],
            i + 1, state, ever)

\* this.listeners.forEach(listener => listener(this.state)), from entry i on
RECURSIVE ForEach(_, _, _, _)
ForEach(walk, i, state, ever) ==
  IF i > Len(walk.entries)
  THEN [walk EXCEPT !.entries = SelectSeq(@, LAMBDA x : x # Empty)]
  ELSE IF walk.entries[i] = Empty THEN ForEach(walk, i + 1, state, ever)
  ELSE LET l == walk.entries[i]
       IN ForEach(
            [walk EXCEPT !.entries = DeleteAll(@, Unsubscribed(l, ever)),
                         !.off = @ \cup Unsubscribed(l, ever),
                         !.calls = Append(@, [listener |-> l, state |-> state,
                                              late |-> l \in walk.off])],
            i + 1, state, ever)

\* the notifications of one call of the manager: notifyListeners ran
\* m.notified times
Notified(reg, m) ==
  IF m.notified = 0 THEN [entries |-> reg.entries, off |-> reg.off, calls |-> << >>]
  ELSE ForEach([entries |-> reg.entries, off |-> reg.off, calls |-> << >>],
               1, m.state, reg.ever)

\* updateState(updater)
UpdateState(m, updated) == NotifyListeners([m EXCEPT !.state = updated])

\* an updater: state => ({...state, content: {visible: true, text: 'Note'}})
Updater(state) ==
  Put(SpreadObj(state), <<"content">>,
      MkObj([visible |-> Leaf(JTrue), text |-> Leaf("Note")]))

Listeners == {"a", "b", "c"}

ListenerMessages ==
  { ShowButton,
    Snapshot(PartialState),
    Delta(<<Patch("replace", <<"", "mediaUpload", "visible">>, Leaf(JTrue)),
            Patch("replace", <<"", "content", "text">>, Leaf("X"))>>) }

InitListeners ==
  /\ mgr = NewManager(GetInitialState)
  /\ obs = NoListeners
  /\ hist = [op |-> "new", n |-> 0, before |-> << >>, offBefore |-> {}, calls |-> << >>]
  /\ hook = Unused /\ net = Unused /\ twin = Unused

\* one call of a method of the manager, and the notifications it makes
Called(op, m) ==
  /\ hist.n < MaxCalls
  /\ mgr' = m
  /\ LET walk == Notified(obs, m)
     IN /\ obs' = [obs EXCEPT !.entries = walk.entries, !.off = walk.off]
        /\ hist' = [op |-> op, n |-> hist.n + 1, before |-> obs.entries,
                    offBefore |-> obs.off, calls |-> walk.calls]
  /\ UNCHANGED <<hook, net, twin>>

\* uiManager.subscribe(l), by a listener that has not subscribed before
DoSubscribe ==
  \E l \in Listeners \ obs.ever :
    /\ obs' = Subscribe(obs, l)
    /\ hist' = [hist EXCEPT !.op = "subscribe", !.calls = << >>]
    /\ UNCHANGED <<mgr, hook, net, twin>>

\* the function returned by subscribe(l) is called, a first or a further time
DoUnsubscribe ==
  \E l \in obs.ever :
    /\ obs' = Unsubscribe(obs, l)
    /\ hist' = [hist EXCEPT !.op = IF l \in obs.off THEN "unsubscribe again"
                                   ELSE "unsubscribe",
                            !.before = obs.entries, !.calls = << >>]
    /\ UNCHANGED <<mgr, hook, net, twin>>

ListenerMessage ==
  \E message \in ListenerMessages :
    Called(message.type, ProcessMessage(Call(mgr), message))

ListenerReset == Called("reset", Reset(Call(mgr)))

ListenerStatus ==
  \E status \in {"completed"} :
    /\ mgr.timers < MaxTimers
    /\ Called("status", UpdateMediaUploadStatus(Call(mgr), status))

ListenerTimer ==
  /\ mgr.timers > 0
  /\ Called("timer", AutoHide(Call(mgr)))

ListenerUpdateState ==
  /\ ~Nullish(Val(mgr.state))
  /\ Called("updateState", UpdateState(Call(mgr), Updater(mgr.state)))

NextListeners ==
  \/ DoSubscribe \/ DoUnsubscribe
  \/ ListenerMessage \/ ListenerReset \/ ListenerStatus
  \/ ListenerTimer \/ ListenerUpdateState

SpecListeners == InitListeners /\ [][NextListeners]_vars

-----------------------------------------------------------------------------
(* The upload widget (UIInput) and its handlers in UIDirectiveRenderer,    *)
(* beside the server's messages and the auto-hide timeout.  obs counts the *)
(* pending timeouts of the simulated upload; hist holds the status before  *)
(* and after the last step.                                                *)

MaxUploads == 1     \* pending timeouts of the simulated upload

Status(m) == Get(m.state, <<"mediaUpload", "status">>)

UploadVisible(m) == Truthy(Get(m.state, <<"mediaUpload", "visible">>))

\* UIInput renders 'Choose File' unless uploading or completed
ChooseFileShown(m) ==
  UploadVisible(m) /\ Status(m) \notin {"uploading", "completed"}

\* UIInput renders 'Cancel' unless completed
CancelShown(m) == UploadVisible(m) /\ Status(m) # "completed"

UploadMessages ==
  { ShowUpload,
    Directive("hide-upload", NoProps),
    Snapshot(ServerState),
    Delta(<<Patch("replace", <<"", "mediaUpload", "status">>, Leaf("error"))>>) }

InitUpload ==
  /\ mgr = NewManager(GetInitialState)
  /\ obs = [pending |-> 0]
  /\ hist = [step |-> "new", from |-> "idle", to |-> "idle"]
  /\ hook = Unused /\ net = Unused /\ twin = Unused

Stepped(step, m, pending) ==
  /\ mgr' = m
  /\ obs' = [pending |-> pending]
  /\ hist' = [step |-> step, from |-> Status(mgr), to |-> Status(m)]
  /\ UNCHANGED <<hook, net, twin>>

\* a UI message of the server reaches processMessage
UploadMessage ==
  \E message \in UploadMessages :
    Stepped("message", ProcessMessage(Call(mgr), message), obs.pending)

\* handleFileUpload: status 'uploading', and a timeout of 2000 ms
HandleFileUpload ==
  /\ ChooseFileShown(mgr)
  /\ obs.pending < MaxUploads
  /\ Stepped("choose", UpdateMediaUploadStatus(Call(mgr), "uploading"),
             obs.pending + 1)

\* the timeout of handleFileUpload: status 'completed'
UploadCompletes ==
  /\ obs.pending > 0
  /\ mgr.timers < MaxTimers
  /\ Stepped("uploaded", UpdateMediaUploadStatus(Call(mgr), "completed"),
             obs.pending - 1)

\* handleCancelUpload: status 'idle'
HandleCancelUpload ==
  /\ CancelShown(mgr)
  /\ Stepped("cancel", UpdateMediaUploadStatus(Call(mgr), "idle"), obs.pending)

\* the timeout of updateMediaUploadStatus('completed')
AutoHideFires ==
  /\ mgr.timers > 0
  /\ Stepped("auto-hide", AutoHide(Call(mgr)), obs.pending)

NextUpload ==
  \/ UploadMessage \/ HandleFileUpload \/ UploadCompletes
  \/ HandleCancelUpload \/ AutoHideFires

SpecUpload == InitUpload /\ [][NextUpload]_vars

-----------------------------------------------------------------------------
(* The isLoading guard.  sendMessage is a useCallback closure over the     *)
(* isLoading value of the render that made it; setIsLoading changes the    *)
(* hook's state, and the closure sees the new value after the next render. *)
(* obs holds the value the current closure was made with.  handleUIAction  *)
(* calls the same closure.                                                 *)

RenderedStreams == {Stream(UploadFrames, TRUE), Stream(TailFrames, FALSE)}

InitRendered ==
  /\ mgr = NewManager(GetInitialState)
  /\ hook = IdleHook /\ hist = NoStream /\ net = << >>
  /\ obs = [isLoading |-> FALSE] /\ twin = Unused

\* the component renders: sendMessage is made anew with the current isLoading
Render ==
  /\ obs.isLoading # hook.isLoading
  /\ obs' = [isLoading |-> hook.isLoading]
  /\ UNCHANGED <<mgr, hook, hist, net, twin>>

\* sendMessage(content), from the input box or from handleUIAction: the
\* guard reads the closure's isLoading
SendRendered ==
  /\ ~obs.isLoading
  /\ Len(hook.turns) < MaxTurns
  /\ Becomes(SendMessage(Me))

NextRendered ==
  \/ Render
  \/ SendRendered
  \/ \E i \in 1..MaxTurns :
       \/ \E stream \in RenderedStreams, streamed \in BOOLEAN :
            FetchReturnsOk(i, stream, streamed)
       \/ DoTextReturns(i)
       \/ DoReadReturnsAny(i)
       \/ DoReadDone(i)
       \/ DoReadThrows(i)

SpecRendered == InitRendered /\ [][NextRendered]_vars

-----------------------------------------------------------------------------
(* One manager given state-delta messages, and beside it (twin) the manager *)
(* as it was before the message, or as a sibling way of delivering the same *)
(* operations leaves it: one message per operation, 'replace' for 'move'    *)

MaxPatches == 2     \* state-delta messages in a run

\* a state as a snapshot may carry it, with falsy values: content.visible
\* false, content.text '', mediaUpload.label null, mediaUpload.progress 0
FalsyState ==
  Put(Put(GetInitialState, <<"mediaUpload", "label">>, Leaf(JNull)),
      <<"mediaUpload", "progress">>, Leaf(JZero))

PatchStates == {GetInitialState, ServerState, FalsyState}

\* path.split('/') of paths below a missing segment ('/buttons/ok/label' in
\* a state without that button, '/form/name'), below an object, and below
\* a boolean, a string, null and a number
DeepPaths ==
  { <<"", "buttons", "ok", "label">>,
    <<"", "form", "name">>,
    <<"", "content", "visible", "x">>,
    <<"", "content", "text", "x">>,
    <<"", "mediaUpload", "label", "x">>,
    <<"", "mediaUpload", "progress", "x">> }

\* two operations on one path, operations on three sub-trees, and batches
\* with an operation that descends through a string
PatchBatches_SamePath ==
  <<Patch("replace", <<"", "content", "text">>, Leaf("X")),
    Patch("replace", <<"", "content", "text">>, Leaf("Y"))>>

PatchBatches ==
  { << >>,
    PatchBatches_SamePath,
    <<Patch("replace", <<"", "mediaUpload", "visible">>, Leaf(JTrue)),
      Patch("remove", <<"", "content", "text">>, NoTree),
      Patch("add", <<"", "buttons", "ok", "label">>, Leaf("Go"))>>,
    <<Patch("replace", <<"", "content", "text">>, Leaf("Menu")),
      Patch("add", <<"", "content", "text", "x">>, Leaf("v"))>>,
    <<Patch("add", <<"", "content", "text", "x">>, Leaf("v")),
      Patch("replace", <<"", "content", "visible">>, Leaf(JTrue))>> }

\* the value field of an operation: a string, an object, null, or none
PatchValues ==
  { Leaf("X"), MkObj([visible |-> Leaf(JTrue), text |-> Leaf("X")]),
    Leaf(JNull), NoTree }

InitPatch ==
  /\ mgr \in {NewManager(s) : s \in PatchStates}
  /\ twin = mgr
  /\ hist = [kind |-> "new", n |-> 0, arg |-> Unused]
  /\ obs = Unused /\ hook = Unused /\ net = Unused

Patched(kind, arg, m, t) ==
  /\ hist.n < MaxPatches
  /\ mgr' = m
  /\ twin' = t
  /\ hist' = [kind |-> kind, n |-> hist.n + 1, arg |-> arg]
  /\ UNCHANGED <<obs, hook, net>>

\* one operation on a deep path; twin keeps the manager as it was before
PatchOnce ==
  \E op \in {"add", "remove", "test"}, path \in DeepPaths :
    Patched("patch", path,
            ProcessMessage(Call(mgr), Delta(<<Patch(op, path, Leaf("v"))>>)),
            Call(mgr))

\* applyDelta once with each operation of a list, in order
RECURSIVE ApplyEach(_, _)
ApplyEach(m, patches) ==
  IF patches = << >> THEN m
  ELSE ApplyEach(ApplyDelta(Call(m), Delta(<<Head(patches)>>)), Tail(patches))

\* a list of operations in one message, and in one message per operation
BatchBoth ==
  \E batch \in PatchBatches :
    Patched("batch", batch,
            ApplyDelta(Call(mgr), Delta(batch)),
            ApplyEach(Call(mgr), batch))

\* a move or copy operation, and the replace with the same path and value
MoveBoth ==
  \E op \in {"move", "copy"}, path \in Paths \cup DeepPaths, value \in PatchValues :
    Patched(op, [path |-> path, value |-> value],
            ApplyDelta(Call(mgr), Delta(<<Patch(op, path, value)>>)),
            ApplyDelta(Call(mgr), Delta(<<Patch("replace", path, value)>>)))

NextPatch == PatchOnce \/ BatchBoth \/ MoveBoth

SpecPatch == InitPatch /\ [][NextPatch]_vars

-----------------------------------------------------------------------------
(* The auto-hide timeout.  setTimeout(callback, 2000) runs its callback     *)
(* once, after the delay, and timeouts of equal delay run in the order they *)
(* were set: the expiry of a pending timeout is weakly fair.  For each      *)
(* pending timeout the history keeps the state the status update left and   *)
(* whether an operation has been applied since.                             *)

MaxOps == 3         \* calls of the manager's methods in a run

\* the widget shown with a label, a visible text and a button
LabelledState ==
  Put(Put(ServerState, <<"mediaUpload", "label">>, Leaf("Pick")),
      <<"mediaUpload", "status">>, Leaf("idle"))

AutoHideStates == {GetInitialState, ServerState, LabelledState}

AutoHideMessages ==
  { ShowUpload,
    Directive("show-content", P([text |-> "Hi"])),
    Delta(<<Patch("replace", <<"", "mediaUpload", "multiple">>, Leaf(JTrue))>>) }

NoTimeouts == [last |-> "new", ops |-> 0, pending |-> << >>, fired |-> Unused]

Touched(pending) == [i \in DOMAIN pending |-> [pending[i] EXCEPT !.touched = TRUE]]

InitAutoHide ==
  /\ mgr \in {NewManager(s) : s \in AutoHideStates}
  /\ hist = NoTimeouts
  /\ obs = Unused /\ hook = Unused /\ net = Unused /\ twin = Unused

\* uiManager.processMessage(message)
AutoHideMessage ==
  \E message \in AutoHideMessages :
    /\ hist.ops < MaxOps
    /\ mgr' = ProcessMessage(Call(mgr), message)
    /\ hist' = [hist EXCEPT !.last = "message", !.ops = @ + 1,
                            !.pending = Touched(@)]
    /\ UNCHANGED <<obs, hook, net, twin>>

\* uiManager.updateMediaUploadStatus(status)
AutoHideStatus ==
  \E status \in Statuses :
    /\ hist.ops < MaxOps
    /\ mgr' = UpdateMediaUploadStatus(Call(mgr), status)
    /\ hist' = [hist EXCEPT
                  !.last = status, !.ops = @ + 1,
                  !.pending = IF status = "completed"
                              THEN Append(Touched(@),
                                          [state |-> mgr'.state, touched |-> FALSE])
                              ELSE Touched(@)]
    /\ UNCHANGED <<obs, hook, net, twin>>

\* the oldest pending timeout expires
AutoHideExpires ==
  /\ mgr.timers > 0
  /\ mgr' = AutoHide(Call(mgr))
  /\ hist' = [hist EXCEPT !.last = "timer",
                          !.pending = Touched(Tail(@)),
                          !.fired = Head(hist.pending)]
  /\ UNCHANGED <<obs, hook, net, twin>>

NextAutoHide == AutoHideMessage \/ AutoHideStatus \/ AutoHideExpires

SpecAutoHide ==
  InitAutoHide /\ [][NextAutoHide]_vars /\ WF_vars(AutoHideExpires)

-----------------------------------------------------------------------------
(* One turn on a response whose body goes on after the sentinel frame *)

\* a terminated text-delta and a UI frame after the sentinel
LateTextFrames ==
  <<TextDelta("Hello"), DoneFrame, TextDelta("!"), UIFrame(ShowContent)>>

\* a terminated UI frame and a text-delta after the sentinel
LateUIFrames ==
  <<UIFrame(ShowUpload), TextDelta("Hel"), DoneFrame, UIFrame(ShowButton),
    TextDelta("lo")>>

SentinelStreams ==
  {Stream(f, closed) : f \in {UploadFrames, LateFrames, LateTextFrames, LateUIFrames},
                       closed \in BOOLEAN}

NextSentinel ==
  \/ SendOnce
  \/ \E stream \in SentinelStreams, streamed \in BOOLEAN : FetchReturnsOk(1, stream, streamed)
  \/ DoTextReturns(1)
  \/ DoReadReturnsAny(1)
  \/ DoReadDone(1)

SpecSentinel == InitTurn /\ [][NextSentinel]_vars

-----------------------------------------------------------------------------
(* Turns on a transport that settles every await: each pending fetch,      *)
(* response.text() and reader.read() of a call eventually resolves or      *)
(* rejects (weak fairness of the call's transport steps)                   *)

MaxSends == 1       \* sendMessage calls in a run

SettleStreams == TurnStreams \cup {Stream(ReplyFrames, TRUE), Stream(LateFrames, FALSE)}

\* sendMessage, its guard passed
SendAgain ==
  /\ ~hook.isLoading
  /\ Len(hook.turns) < MaxSends
  /\ Becomes(SendMessage(Me))

\* the transport settles the await call i is at
Settles(i) ==
  \/ \E stream \in SettleStreams, streamed \in BOOLEAN : FetchReturnsOk(i, stream, streamed)
  \/ FetchReturnsNotOk(i)
  \/ FetchRejects(i)
  \/ DoTextReturns(i)
  \/ DoReadReturns(i)
  \/ DoReadDone(i)
  \/ DoReadThrows(i)
  \/ DoAbortDelivered(i)

NextSettle ==
  \/ SendAgain
  \/ \E i \in 1..MaxSends : Settles(i)
  \/ DoCancelRequest

SpecSettle ==
  InitTurn /\ [][NextSettle]_vars /\ \A i \in 1..MaxSends : WF_vars(Settles(i))

-----------------------------------------------------------------------------
(* Properties of the manager *)

\* the value of initialState(), written out property by property
CanonicalInitialState ==
  (<< >> :> ObjTag)
  @@ (<<"content">> :> ObjTag)
  @@ (<<"content", "visible">> :> JFalse)
  @@ (<<"content", "text">> :> "")
  @@ (<<"mediaUpload">> :> ObjTag)
  @@ (<<"mediaUpload", "visible">> :> JFalse)
  @@ (<<"mediaUpload", "status">> :> "idle")
  @@ (<<"mediaUpload", "acceptedTypes">> :> ArrTag)
  @@ (<<"mediaUpload", "acceptedTypes", "0">> :> "image/*")
  @@ (<<"mediaUpload", "multiple">> :> JFalse)
  @@ (<<"buttons">> :> ObjTag)

MessageTypes == {"ui-directive", "state-snapshot", "state-delta"}

\* C2 (as claimed): a state value that getState() returned is never changed
\* by a later operation of the manager.
C2_KeptStateNeverChanges ==
  [][(obs.held /\ hist'.last # "getState") => obs'.state = obs.state]_vars

\* C3 (as claimed): when a show-upload directive or another status update
\* was applied after updateMediaUploadStatus('completed') set its timeout,
\* the timeout's callback leaves mediaUpload as it is.
C3_StaleTimerLeavesUpload ==
  [][(hist'.last = "timer" /\ hist.stale # << >> /\ Head(hist.stale))
       => Sub(mgr'.state, <<"mediaUpload">>) = Sub(mgr.state, <<"mediaUpload">>)]_vars

\* C4: updateMediaUploadStatus('completed'), then reset() before the
\* timeout expires: once the timeout has expired (and nothing else ran) the
\* state is structurally the initial state.
C4_ResetThenTimerIsInitial ==
  hist.afterReset = "fired" => mgr.state = CanonicalInitialState

C4_Witness ==
  hist.afterReset = "fired" /\ hist.last = "timer" /\ mgr.notified = 1

\* C5: right after reset() the state is exactly the canonical initial
\* state, whatever ran before and whatever state the manager was built with.
C5_ResetYieldsInitialState ==
  hist.last = "reset" => (mgr.state = CanonicalInitialState /\ ~mgr.raised)

C5_Witness ==
  hist.last = "reset" /\ hist.afterReset = "reset" /\ mgr.state = CanonicalInitialState

\* C6: after the same directives, in the same order, the manager fed through
\* processMessage and the one fed through applyDirective hold the same state
\* and have notified their listeners equally often.
C6_DispatchEqualsApplyDirective ==
  /\ mgr.state = twin.state
  /\ mgr.raised = twin.raised
  /\ hist.notified = hist.twinNotified

C6_Witness ==
  /\ hist.n = 3
  /\ hist.notified = 3
  /\ Get(mgr.state, <<"buttons", "ok", "enabled">>) = JFalse
  /\ Get(mgr.state, <<"buttons", "ok", "visible">>) = JFalse

\* C7 (as claimed): processMessage never lets an exception escape.
C7_ProcessMessageNeverRaises ==
  hist.last \in MessageTypes => ~mgr.raised

-----------------------------------------------------------------------------
(* Properties of the hook *)

IsUIFrame(f) == f.type \in {"ui-directive", "state-snapshot", "state-delta"}

\* a frame at which the loop of the mode stops reading the stream
Stops(f, streamed) ==
  f.marker /\ (f.sentinel \/ (f.json /\ (f.done \/ (streamed /\ f.type = "error"))))

StopIndex(frames, streamed) ==
  IF \E j \in 1..Len(frames) : Stops(frames[j], streamed)
  THEN CHOOSE j \in 1..Len(frames) :
         /\ Stops(frames[j], streamed)
         /\ \A k \in 1..(j - 1) : ~Stops(frames[k], streamed)
  ELSE Len(frames) + 1

\* the positions of the UI frames before position `stop`, in arrival order
UIBefore(frames, stop) ==
  SelectSeq([j \in 1..(stop - 1) |-> j], LAMBDA j : IsUIFrame(frames[j]))

\* the messages at the given <<call, frame>> positions applied one after
\* the other
RECURSIVE FoldState(_, _, _)
FoldState(state, responses, positions) ==
  IF positions = << >> THEN state
  ELSE FoldState(ProcessMessage(NewManager(state),
                                responses[Head(positions)[1]]
                                  .frames[Head(positions)[2]].msg).state,
                 responses, Tail(positions))

OfTurn(i, forwarded) == [k \in 1..Len(forwarded) |-> <<i, forwarded[k]>>]

EndedNormally(t) == t.pc = "ended" /\ t.halt \in {"no", "done", "error"}

C8_StateFromThisTurnOnly ==
  LET i == Len(hook.turns)
  IN (i > 0 /\ hook.turns[i].pc = "ended")
       => mgr.state = FoldState(GetInitialState, net, OfTurn(i, hook.turns[i].forwarded))

BothEnded ==
  /\ hook.turns # << >> /\ twin.hook.turns # << >>
  /\ hook.turns[1].pc = "ended" /\ twin.hook.turns[1].pc = "ended"

\* C9: two incremental readers of the same body, each with its own chunking,
\* forward the same messages and end with the same text.
C9_ChunkingIndependent ==
  (BothEnded /\ hook.turns[1].streamed /\ twin.hook.turns[1].streamed)
    => /\ hook.turns[1].forwarded = twin.hook.turns[1].forwarded
       /\ hook.turns[1].shown = twin.hook.turns[1].shown

\* C10: the incremental mode and the whole-body mode end with the same UI
\* state and the same response text for the same body.
C10_ModesAgree ==
  (BothEnded /\ hook.turns[1].streamed /\ ~twin.hook.turns[1].streamed)
    => /\ mgr.state = twin.mgr.state
       /\ hook.turns[1].shown = twin.hook.turns[1].shown

-----------------------------------------------------------------------------
(* Properties of one turn *)

RECURSIVE ConcatText(_)
ConcatText(frames) ==
  IF frames = << >> THEN << >>
  ELSE (IF Head(frames).type = "text-delta" THEN Text(Head(frames).content) ELSE << >>)
       \o ConcatText(Tail(frames))

AllUI(frames) == UIBefore(frames, Len(frames) + 1)

Ended(i) == i \in DOMAIN hook.turns /\ hook.turns[i].pc = "ended"

\* C11: for a stream of text-delta and UI frames that ends with the sentinel,
\* the turn ends with the concatenation of the text-delta contents as its text
\* and with the initial state to which the UI messages were applied in order.
C11_TextAndStateAreFolds ==
  (Ended(1) /\ net[1].frames \in FoldStreams)
    => /\ hook.turns[1].shown = ConcatText(net[1].frames)
       /\ mgr.state = FoldState(GetInitialState, net, OfTurn(1, AllUI(net[1].frames)))

\* C12: a body with a frame that is no message ends the turn with the same
\* text and the same UI state as the body without that frame.
C12_MalformedFrameIsTransparent ==
  BothEnded
    => /\ hook.turns[1].shown = twin.hook.turns[1].shown
       /\ mgr.state = twin.mgr.state

\* the position of the first error frame that comes before any sentinel, or 0
FirstError(frames) ==
  LET stop == StopIndex(frames, FALSE)
      errors == {j \in 1..(stop - 1) : frames[j].type = "error"}
  IN IF errors = {} THEN 0 ELSE CHOOSE j \in errors : \A k \in errors : j <= k

\* C13: in both modes, once an error frame is decoded no later frame of the
\* turn is handed to the manager or changes the text, and the text is the
\* error marker with the frame's content.
C13_ErrorFrameIsTerminal ==
  (Ended(1) /\ FirstError(net[1].frames) # 0)
    => /\ \A k \in 1..Len(hook.turns[1].forwarded) :
            hook.turns[1].forwarded[k] < FirstError(net[1].frames)
       /\ hook.turns[1].shown
            = <<"Error: ", net[1].frames[FirstError(net[1].frames)].content>>

\* the positions of the response-messages frames with a first message that
\* come before any sentinel
Replies(frames) ==
  {j \in 1..(StopIndex(frames, FALSE) - 1) :
     frames[j].type = "response-messages" /\ Truthy(Val(frames[j].first))}

\* C14: a turn whose stream has a response-messages frame with a message ends
\* with the content of that message as its text.
C14_ReplyIsFinalText ==
  (Ended(1) /\ Replies(net[1].frames) # {})
    => \E j \in Replies(net[1].frames) :
         hook.turns[1].shown = MessageContent(net[1].frames[j].first)

\* what one frame did to a client: a UI frame left the accumulated text as it
\* was, any other frame left the manager as it was (state, no notification)
RoutedWell(before, after, i, f) ==
  IF f.marker /\ f.json /\ IsUIFrame(f)
  THEN after.hook.turns[i].finalContent = before.hook.turns[i].finalContent
  ELSE after.mgr = before.mgr

\* C15: in every state of a turn and in both loops, a frame of the stream
\* changes the UI state and notifies the subscribers only if it is a UI
\* message, and a UI message does not change the accumulated text.
C15_RoutingFrame ==
  \A j \in 1..(IF hook.turns = << >> THEN 0 ELSE Len(net[1].frames)) :
    \A incremental \in BOOLEAN :
      RoutedWell([Me EXCEPT !.mgr = Call(@)],
                 HandleLine([Me EXCEPT !.mgr = Call(@)], 1, FrameText(j), incremental),
                 1, net[1].frames[j])

\* a turn that took a text-delta, skipped a frame of an unknown type and
\* handed a show-button to the manager
C15_Witness ==
  /\ Ended(1)
  /\ net[1].frames = <<TextDelta("Hello"), Frame("heartbeat"), UIFrame(ShowButton)>>
  /\ hook.turns[1].shown = <<"Hello">>
  /\ hook.turns[1].forwarded = <<3>>
  /\ mgr.notified = 1
  /\ Get(mgr.state, <<"buttons", "ok", "visible">>) = JTrue
  /\ Get(mgr.state, <<"content", "visible">>) = JFalse

-----------------------------------------------------------------------------
(* Properties of sibling messages *)

\* C16: a batch with a test operation leaves the manager as the batch without
\* it does: same state, same notification, no exception of its own.
C16_TestOpIsTransparent ==
  hist.kind = "test" => (mgr.state = twin.state /\ mgr.raised = twin.raised
                         /\ mgr.notified = twin.notified)

\* C17: a state-delta message notifies the subscribers exactly once.
C17_DeltaNotifiesOnce == hist.last = "state-delta" => mgr.notified = 1

\* C18: a snapshot that wraps S in {ui: S} and one that carries S itself leave
\* the manager in the same state, which is S and nothing of the state before.
C18_SnapshotShapes ==
  hist.kind = "snapshot" =>
    (mgr.state = twin.state /\ mgr.state = hist.arg
     /\ ~mgr.raised /\ mgr.notified = 1 /\ twin.notified = 1)

\* the second message of a run is a snapshot of the initial state, in both
\* shapes: the manager holds the initial state whatever it held before
C18_Witness ==
  /\ hist.kind = "snapshot" /\ hist.n = 2
  /\ hist.arg = GetInitialState
  /\ mgr.state = GetInitialState /\ twin.state = GetInitialState

\* the first segment of a path, the leading '/' set aside
FirstSegment(path) ==
  IF Head(path) = "" THEN (IF Len(path) > 1 THEN path[2] ELSE "") ELSE Head(path)

\* the non-empty segments of a path
Segments(path) == SelectSeq(path, LAMBDA p : p # "")

\* C19 as stated: for a path whose first segment is not 'ui', the operation
\* addressed at '/ui' + path and the one addressed at path give the same state.
C19_NamespaceStripping ==
  (hist.kind = "ui" /\ FirstSegment(hist.arg) # "ui")
    => (mgr.state = twin.state /\ mgr.raised = twin.raised)

\* C19, amended: the same for a path that is empty or starts with '/', and
\* whose first non-empty segment is not 'ui'.
C19_NamespaceStrippingOfPointers ==
  (hist.kind = "ui" /\ Head(hist.arg) = ""
   /\ (Segments(hist.arg) = << >> \/ Head(Segments(hist.arg)) # "ui"))
    => (mgr.state = twin.state /\ mgr.raised = twin.raised
        /\ mgr.notified = twin.notified)

\* replace at /ui/mediaUpload/visible and at /mediaUpload/visible
C19_Witness ==
  /\ hist.kind = "ui"
  /\ hist.arg = <<"", "mediaUpload", "visible">>
  /\ Get(mgr.state, <<"mediaUpload", "visible">>) = "X"
  /\ Get(twin.state, <<"mediaUpload", "visible">>) = "X"


\* the props of update-button and the button fields they are merged into
ButtonFields ==
  { <<"enabled", "enabled">>, <<"buttonLabel", "label">>,
    <<"action", "action">>, <<"style", "style">> }

\* C20: after update-button on an existing button, each of enabled,
\* buttonLabel, action and style that is present in props is the value of the
\* button's field, whatever the value.
C20_UpdateButtonMergesPresent ==
  (hist.kind = "update-button"
   /\ Get(twin.state, <<"buttons", "ok">>) = ObjTag)
    => \A f \in ButtonFields :
         hist.arg[f[1]] # Undef
           => Get(mgr.state, <<"buttons", "ok", f[2]>>) = hist.arg[f[1]]

\* the fields of button `id` that props gives a value for
GivenFields(props) ==
  { <<"buttons", props.buttonId, f[2]>> :
      f \in {g \in ButtonFields : props[g[1]] # Undef} }

\* C21: update-button on an existing button changes nothing but the fields
\* of that button that props gives: its other fields (visible always), the
\* other buttons, content and mediaUpload keep their values.
C21_UpdateButtonKeepsTheRest ==
  (hist.kind = "update-button"
   /\ Get(twin.state, <<"buttons", hist.arg.buttonId>>) = ObjTag)
    => /\ ~mgr.raised
       /\ \A p \in DOMAIN mgr.state \cup DOMAIN twin.state :
            p \notin GivenFields(hist.arg)
              => Get(mgr.state, p) = Get(twin.state, p)

\* update-button 'ok' with enabled: false, beside a second button: enabled
\* flips, the label stays
C21_Witness ==
  /\ hist.kind = "update-button"
  /\ hist.arg.buttonId = "ok" /\ hist.arg.enabled = JFalse
  /\ Get(twin.state, <<"buttons", "ok", "enabled">>) = JTrue
  /\ Get(mgr.state, <<"buttons", "ok", "enabled">>) = JFalse
  /\ Get(mgr.state, <<"buttons", "ok", "label">>) = "OK"
  /\ Get(mgr.state, <<"buttons", "cancel", "label">>) = "Cancel"

KnownActions ==
  { "show-content", "update-content", "hide-content",
    "show-upload", "hide-upload", "cancel-upload",
    "show-button", "hide-button", "update-button" }

\* a directive the reducer has nothing to do for, in the given state
Ignored(state, directive) ==
  \/ directive.action \notin KnownActions
  \/ /\ directive.action = "show-button"
     /\ directive.props.buttonId \in {Undef, ""}
  \/ /\ directive.action \in {"hide-button", "update-button"}
     /\ \/ directive.props.buttonId \in {Undef, ""}
        \/ Get(state, <<"buttons", directive.props.buttonId>>) = Undef

\* C22: a directive with an unknown action, show-button without buttonId,
\* and hide-button or update-button without buttonId or naming no existing
\* button leave the state equal to the state before.
C22_IgnoredDirectiveIsNoOp ==
  (hist.kind = "directive" /\ Ignored(twin.state, hist.arg))
    => mgr.state = twin.state

\* hide-button 'none' in a state that has the button 'ok' only
C22_Witness ==
  /\ hist.kind = "directive"
  /\ hist.arg.action = "hide-button" /\ hist.arg.props.buttonId = "none"
  /\ mgr.state = ServerState /\ twin.state = ServerState
  /\ mgr.notified = 1

\* C23: processMessage with a type other than ui-directive, state-snapshot
\* and state-delta leaves the state as it was, notifies nobody and raises
\* nothing.
C23_OtherTypeIsSilentNoOp ==
  (hist.kind = "other" /\ hist.arg \notin MessageTypes)
    => (mgr.state = twin.state /\ mgr.notified = 0 /\ ~mgr.raised)

\* a text-delta message given to a manager that holds the server state
C23_Witness ==
  /\ hist.kind = "other" /\ hist.arg = "text-delta"
  /\ mgr.state = ServerState /\ twin.state = ServerState
  /\ mgr.notified = 0

-----------------------------------------------------------------------------
(* Properties of the listeners *)

MutatingOps ==
  { "ui-directive", "state-snapshot", "state-delta",
    "reset", "status", "timer", "updateState" }

\* the last step was a mutating operation that returned
Mutated == hist.op \in MutatingOps /\ ~mgr.raised

\* the listeners invoked by the last operation, in the order of invocation
Invoked == [i \in DOMAIN hist.calls |-> hist.calls[i].listener]

\* the place of listener l in the subscription order
Place(l) == CHOOSE i \in DOMAIN hist.before : hist.before[i] = l

\* C24 as stated: after a mutating operation the listeners subscribed at
\* that moment are invoked once each, in subscription order, with the state
\* getState() returns.
C24_AllListenersNotified ==
  Mutated =>
    /\ Invoked = hist.before
    /\ \A i \in DOMAIN hist.calls : hist.calls[i].state = mgr.state

\* C24, amended: the same for the listeners subscribed at that moment that
\* no listener invoked earlier in the same notification has unsubscribed.
C24_SubscribedListenersNotified ==
  Mutated =>
    /\ \A i \in DOMAIN Invoked : \E k \in DOMAIN hist.before : hist.before[k] = Invoked[i]
    /\ \A i, j \in DOMAIN Invoked : i < j => Place(Invoked[i]) < Place(Invoked[j])
    /\ \A k \in DOMAIN hist.before :
         \/ \E i \in DOMAIN Invoked : Invoked[i] = hist.before[k]
         \/ \E i \in DOMAIN Invoked :
              /\ hist.before[k] \in Unsubscribed(Invoked[i], obs.ever)
              /\ Place(Invoked[i]) < k
    /\ \A i \in DOMAIN hist.calls : hist.calls[i].state = mgr.state

\* three listeners subscribed as b, c, a: a state-delta invokes b and c, and
\* not a, which c has unsubscribed
C24_Witness ==
  /\ hist.op = "state-delta" /\ ~mgr.raised
  /\ hist.before = <<"b", "c", "a">>
  /\ Invoked = <<"b", "c">>
  /\ Get(mgr.state, <<"content", "text">>) = "X"
  /\ hist.calls[2].state = mgr.state

\* C25: a listener whose unsubscribe function has been called is not invoked
\* again; calling the function again changes nothing; and a listener that is
\* still subscribed after a notification in which unsubscribe functions were
\* called has received that notification.
C25_UnsubscribeIsSafe ==
  /\ \A i \in DOMAIN hist.calls :
       ~hist.calls[i].late /\ hist.calls[i].listener \notin hist.offBefore
  /\ hist.op = "unsubscribe again" => obs.entries = hist.before
  /\ Mutated =>
       \A k \in DOMAIN hist.before :
         (\E x \in DOMAIN obs.entries : obs.entries[x] = hist.before[k])
           => \E i \in DOMAIN Invoked : Invoked[i] = hist.before[k]

\* b, subscribed first, unsubscribes itself during a notification: a, behind
\* it, receives the notification and is the only listener left
C25_Witness ==
  /\ Mutated
  /\ hist.before = <<"b", "a">>
  /\ Invoked = <<"b", "a">>
  /\ obs.entries = <<"a">>

-----------------------------------------------------------------------------
(* Properties of the upload widget *)

ValidTransitions ==
  { <<"idle", "uploading">>, <<"uploading", "completed">>,
    <<"uploading", "error">>, <<"completed", "idle">>, <<"error", "idle">> }

\* C26: in every run of the client mediaUpload.status changes only along
\* idle -> uploading, uploading -> completed, uploading -> error,
\* completed -> idle, error -> idle.
C26_StatusTransitions ==
  hist.from # hist.to => <<hist.from, hist.to>> \in ValidTransitions

-----------------------------------------------------------------------------
(* Properties of concurrent turns *)

\* the turns whose request is in flight or whose response is being read
Active == {i \in DOMAIN hook.turns : hook.turns[i].pc # "ended" /\ ~hook.turns[i].aborted}

\* the turns of the messages handed to processMessage since the last reset
Feeders == [k \in DOMAIN hist.log |-> hist.log[k][1]]

\* C27: at most one turn is active at any time, and the messages handed to
\* processMessage are never those of one turn with those of another turn
\* between them.
C27_SingleActiveStream ==
  /\ Cardinality(Active) <= 1
  /\ \A a, b, c \in DOMAIN Feeders :
       (a < b /\ b < c /\ Feeders[a] = Feeders[c]) => Feeders[b] = Feeders[a]


\* C28: whenever the request of a turn is in flight, cancelRequest() aborts it.
C28_InFlightIsCancellable ==
  \A i \in Active : CancelRequest(Me).hook.turns[i].aborted


\* the latest call has ended by a failure of the transport (a network error
\* or an abort) after its response had arrived
ReadFailed ==
  /\ hook.turns # << >>
  /\ hook.turns[Len(hook.turns)].pc = "ended"
  /\ hook.turns[Len(hook.turns)].halt \in {"failed", "abort"}
  /\ hist.owner = Len(hook.turns)

\* C29: when the read of a turn has failed after k frames, the UI state is
\* the initial state with the UI messages among those frames applied, the
\* failure has gone to onError unless it is an abort, and the loading flag is
\* cleared.
C29_NoRollbackOnFailure ==
  ReadFailed =>
    LET i == Len(hook.turns)
    IN /\ mgr.state = FoldState(GetInitialState, net, OfTurn(i, hook.turns[i].forwarded))
       /\ hook.turns[i].onError = (hook.turns[i].halt = "failed")
       /\ ~hook.isLoading


ContentActions == {"show-content", "update-content", "hide-content"}
UploadActions == {"show-upload", "hide-upload", "cancel-upload"}
ButtonActions == {"show-button", "hide-button", "update-button"}

\* the state has the same value before and after at every path outside `at`
SameOutside(at) ==
  \A p \in DOMAIN mgr.state \cup DOMAIN twin.state :
    ~IsPrefix(at, p) => Get(mgr.state, p) = Get(twin.state, p)

\* C30: a content directive changes nothing outside content, an upload
\* directive nothing outside mediaUpload, and a button directive nothing
\* outside the entry of the named button.
C30_DirectiveFrame ==
  hist.kind = "directive" =>
    /\ hist.arg.action \in ContentActions => SameOutside(<<"content">>)
    /\ hist.arg.action \in UploadActions => SameOutside(<<"mediaUpload">>)
    /\ hist.arg.action \in ButtonActions
         => SameOutside(<<"buttons", hist.arg.props.buttonId>>)

\* show-content in a state with a visible upload widget and two buttons
C30_Witness ==
  /\ hist.kind = "directive" /\ hist.arg.action = "show-content"
  /\ twin.state = TwoButtonState
  /\ Get(mgr.state, <<"content", "text">>) = "Hi"
  /\ Get(mgr.state, <<"mediaUpload", "visible">>) = JTrue
  /\ Get(mgr.state, <<"buttons", "cancel", "label">>) = "Cancel"

\* the widget that show-upload with these props is to leave
ShownUpload(props) ==
  MkObj([visible |-> Leaf(JTrue),
         status |-> Leaf("idle"),
         acceptedTypes |-> Arr1(Leaf(IF props.accept \in {Undef, ""}
                                     THEN "image/*" ELSE props.accept)),
         multiple |-> Leaf(IF props.multiple \in {Undef, JNull}
                           THEN JFalse ELSE props.multiple),
         label |-> Leaf(props.uploadLabel)])

\* C31: show-upload replaces mediaUpload as a whole: whatever it was before,
\* it is {visible: true, status: idle, acceptedTypes: [accept] or ['image/*'],
\* multiple: props.multiple or false, label: props.uploadLabel}; a label the
\* widget had is gone when props give none.
C31_ShowUploadReplaces ==
  (hist.kind = "directive" /\ hist.arg.action = "show-upload")
    => /\ ~mgr.raised
       /\ Sub(mgr.state, <<"mediaUpload">>) = ShownUpload(hist.arg.props)

\* show-upload without props on a widget labelled 'Pick' for video/*
C31_Witness ==
  /\ hist.kind = "directive" /\ hist.arg = Directive("show-upload", NoProps)
  /\ Get(twin.state, <<"mediaUpload", "label">>) = "Pick"
  /\ Get(twin.state, <<"mediaUpload", "acceptedTypes", "0">>) = "video/*"
  /\ Get(mgr.state, <<"mediaUpload", "label">>) = Undef
  /\ Get(mgr.state, <<"mediaUpload", "acceptedTypes", "0">>) = "image/*"

\* the entry that show-button with these props is to leave
ShownButton(props) ==
  MkObj([visible |-> Leaf(JTrue),
         enabled |-> Leaf(IF props.enabled \in {Undef, JNull}
                          THEN JTrue ELSE props.enabled),
         label |-> Leaf(props.buttonLabel),
         action |-> Leaf(props.action),
         style |-> Leaf(IF props.style \in {Undef, JNull}
                        THEN "primary" ELSE props.style)])

\* show-button naming a button
ShowsButton ==
  /\ hist.kind = "directive" /\ hist.arg.action = "show-button"
  /\ hist.arg.props.buttonId \notin {Undef, ""}

ButtonShown ==
  /\ ~mgr.raised
  /\ Sub(mgr.state, <<"buttons", hist.arg.props.buttonId>>)
       = ShownButton(hist.arg.props)

\* C32: after show-button with a buttonId, buttons[id] is exactly {visible:
\* true, enabled: props.enabled or true, label: props.buttonLabel, action:
\* props.action, style: props.style or 'primary'}, whatever entry was there.
C32_ShowButtonSetsEntry == ShowsButton => ButtonShown

\* the same in the states that have a buttons mapping
C32_ShowButtonOverwrites ==
  (ShowsButton /\ Get(twin.state, <<"buttons">>) = ObjTag) => ButtonShown

\* the paths of the segments a patch path descends through: every proper,
\* non-empty prefix of the normalized path
Intermediate(path) ==
  {SubSeq(PathParts(path), 1, k) : k \in 1..(Len(PathParts(path)) - 1)}

\* C33: the navigation of a patch creates {} exactly where a segment is
\* missing; a segment that holds a value (false, '', 0 and null included)
\* keeps it.
C33_VivifiesOnlyMissing ==
  (hist.kind = "patch" /\ ~mgr.raised)
    => \A q \in Intermediate(hist.arg) :
         IF q \in DOMAIN twin.state
         THEN Get(mgr.state, q) = Get(twin.state, q)
         ELSE Get(mgr.state, q) = ObjTag

\* C34: one applyDelta with a list of operations leaves the state that
\* successive applyDelta calls with the operations one by one leave.
C34_BatchEqualsSequence ==
  hist.kind = "batch" => mgr.state = twin.state

\* the same for the lists that applyDelta applies without an exception
BatchEqualsSequenceUnlessRaised ==
  (hist.kind = "batch" /\ ~mgr.raised)
    => /\ mgr.state = twin.state
       /\ (hist.arg = PatchBatches_SamePath
             => Get(mgr.state, <<"content", "text">>) = "Y")

\* C35: a move or copy operation leaves the state that the replace operation
\* with the same path and value leaves, whether the value is given or not.
C35_MoveIsReplace ==
  hist.kind \in {"move", "copy"}
    => mgr.state = twin.state /\ mgr.raised = twin.raised

\* the same for the operations that carry a value
MoveIsReplaceOfGivenValue ==
  (hist.kind \in {"move", "copy"} /\ hist.arg.value # NoTree)
    => mgr.state = twin.state /\ mgr.raised = twin.raised

\* a timeout is pending that no operation has followed
AwaitingHide == hist.pending # << >> /\ ~Head(hist.pending).touched

\* an operation has followed the update that set the oldest pending timeout
Disturbed == hist.pending # << >> /\ Head(hist.pending).touched

\* the timeout has expired with no operation between the status update and
\* the expiry, and the state is the one the update left but for visible
\* false and status idle, with one notification by the callback
Hidden ==
  /\ hist.last = "timer" /\ ~hist.fired.touched
  /\ Get(mgr.state, <<"mediaUpload", "visible">>) = JFalse
  /\ Get(mgr.state, <<"mediaUpload", "status">>) = "idle"
  /\ \A p \in DOMAIN mgr.state \cup DOMAIN hist.fired.state :
       p \notin {<<"mediaUpload", "visible">>, <<"mediaUpload", "status">>}
         => Get(mgr.state, p) = Get(hist.fired.state, p)
  /\ mgr.notified = 1

\* C36: after updateMediaUploadStatus('completed') with no operation
\* following it, the timeout eventually expires and leaves mediaUpload
\* hidden and idle, everything else as it was, and the subscribers notified
\* once more; a status other than 'completed' sets no timeout (the timeouts
\* pending are those of the 'completed' updates).
C36_AutoHideEventually ==
  /\ [](mgr.timers = Len(hist.pending))
  /\ [](hist.last = "timer" /\ ~hist.fired.touched => Hidden)
  /\ (AwaitingHide ~> (Hidden \/ Disturbed))

\* the widget labelled 'Pick' completed, then hidden by the timeout
C36_Witness ==
  /\ Hidden
  /\ Get(hist.fired.state, <<"mediaUpload", "status">>) = "completed"
  /\ Get(hist.fired.state, <<"mediaUpload", "visible">>) = JTrue
  /\ Get(mgr.state, <<"mediaUpload", "label">>) = "Pick"
  /\ Get(mgr.state, <<"buttons", "ok", "label">>) = "OK"

\* the position of the [DONE] frame (the streams here have one)
SentinelAt(frames) ==
  CHOOSE j \in 1..Len(frames) :
    /\ frames[j].marker /\ frames[j].sentinel
    /\ \A k \in 1..(j - 1) : ~(frames[k].marker /\ frames[k].sentinel)

\* C37: in both modes no frame that follows the [DONE] frame in the stream
\* is handed to processMessage, and none is added to the text.
C37_NothingAfterSentinel ==
  \A i \in DOMAIN hook.turns :
    net[i].frames # << >> =>
      /\ \A k \in DOMAIN hook.turns[i].forwarded :
           hook.turns[i].forwarded[k] < SentinelAt(net[i].frames)
      /\ Ended(i) =>
           hook.turns[i].shown
             = ConcatText(SubSeq(net[i].frames, 1, SentinelAt(net[i].frames) - 1))

\* the same, but for one UI frame in incremental mode: the one left in the
\* buffer of the chunk that carried the sentinel
NothingAfterSentinelButTheBuffer ==
  \A i \in DOMAIN hook.turns :
    net[i].frames # << >> =>
      /\ \A k \in DOMAIN hook.turns[i].forwarded :
           \/ hook.turns[i].forwarded[k] < SentinelAt(net[i].frames)
           \/ /\ hook.turns[i].streamed
              /\ k = Len(hook.turns[i].forwarded)
      /\ Ended(i) =>
           hook.turns[i].shown
             = ConcatText(SubSeq(net[i].frames, 1, SentinelAt(net[i].frames) - 1))

\* call i has passed the guard of sendMessage
Started(i) == Len(hook.turns) >= i

\* the step in which call i runs its finally block clears the loading flag
\* and the abort handle
FinallyClears ==
  \A i \in DOMAIN hook.turns :
    (hook.turns[i].pc # "ended" /\ hook'.turns[i].pc = "ended")
      => ~hook'.isLoading /\ hook'.abortRef = 0

\* C38: every sendMessage call that passes its guard eventually runs its
\* finally block, which clears the loading flag and the abort handle,
\* whichever way the turn ends, on a transport that settles every await.
C38_TurnTerminates ==
  /\ [][FinallyClears]_vars
  /\ \A i \in 1..MaxSends : Started(i) ~> (Started(i) /\ hook.turns[i].pc = "ended")

\* a turn ended by an exception of processMessage, flag and handle cleared
C38_Witness ==
  /\ Started(1) /\ hook.turns[1].pc = "ended" /\ hook.turns[1].halt = "raised"
  /\ ~hook.isLoading /\ hook.abortRef = 0

====
